---- MODULE Spec2Model ----
(***************************************************************************)
(* Masonry wall simulator: bond pattern generators, wall model, support    *)
(* checker, stride optimizer and brick placer.                             *)
(*                                                                         *)
(* Arithmetic.  The program computes with Python floats.  Every length and *)
(* coordinate it produces is a multiple of 0.25 mm and every movement cost *)
(* a multiple of 0.125 mm, far below 2^53, so the float arithmetic is      *)
(* exact.  The model keeps lengths and coordinates as integers in units of *)
(* a quarter millimetre (mm(x) = 4x) and movement costs in units of an     *)
(* eighth of a millimetre.  The program's constants are written in         *)
(* millimetres as in constants.py.                                         *)
(***************************************************************************)
EXTENDS Integers, Sequences, FiniteSets, Bags, TLC

\* ------------------------------------------------------------------------
\* constants.py
\* ------------------------------------------------------------------------
U == 4
mm(x) == x * U

FULL_BRICK_LENGTH == 210
FULL_BRICK_WIDTH == 100
FULL_BRICK_HEIGHT == 50
HALF_BRICK_LENGTH == 100
HEAD_JOINT == 10
\* COURSE_HEIGHT = 62.5 mm, kept as twice its value
COURSE_HEIGHT_X2 == 125
WALL_WIDTH == 2300
WALL_HEIGHT == 2000
STRIDE_WIDTH == 800
STRIDE_HEIGHT == 1300
STRETCHER_BOND == 0
ENGLISH_CROSS_BOND == 1
WILD_BOND == 2
\* HORIZONTAL_MOVE_COST = 1.5 and VERTICAL_MOVE_COST = 1.0, kept as twice their value
HORIZONTAL_MOVE_COST_X2 == 3
VERTICAL_MOVE_COST_X2 == 2
\* SUPPORT_THRESHOLD = 0.9, kept as ten times its value
SUPPORT_THRESHOLD_X10 == 9
\* NUM_COURSES = int(WALL_HEIGHT / COURSE_HEIGHT)
NUM_COURSES == (2 * WALL_HEIGHT) \div COURSE_HEIGHT_X2
COURSE_HEIGHT_U == (COURSE_HEIGHT_X2 * U) \div 2

BondTypes == {STRETCHER_BOND, ENGLISH_CROSS_BOND, WILD_BOND}

\* ------------------------------------------------------------------------
\* Python builtins used by the program
\* ------------------------------------------------------------------------
Abs(x) == IF x < 0 THEN -x ELSE x
Min(a, b) == IF a <= b THEN a ELSE b
Max(a, b) == IF a >= b THEN a ELSE b
MinOf(S) == CHOOSE m \in S : \A n \in S : m <= n

\* Eager(acc, e) is e, with the sequence acc (a loop's accumulator) evaluated
\* first, as the loop has it evaluated at the end of each iteration.
Eager(acc, e) == IF Len(acc) >= 0 THEN e ELSE e

\* sum(brick[0] for brick in row)
RECURSIVE SumLengths(_, _)
SumLengths(row, i) ==
    IF i > Len(row) THEN 0 ELSE row[i][1] + SumLengths(row, i + 1)

\* sum(brick[0] for brick in row) + (len(row) - 1) * HEAD_JOINT
course_width(row) == SumLengths(row, 1) + (Len(row) - 1) * mm(HEAD_JOINT)

\* row[-1] = (row[-1][0] + delta, row[-1][1], row[-1][2])
AdjustLast(row, delta) ==
    [row EXCEPT ![Len(row)] = <<@[1] + delta, @[2], @[3]>>]

\* A row is a sequence of tuples <<brick_length, is_built, orientation>>.
Brick(len, orientation) == <<len, 0, orientation>>

\* row.append(brick) repeated n times
RECURSIVE AppendN(_, _, _)
AppendN(row, brick, n) ==
    IF n <= 0 THEN row ELSE AppendN(Append(row, brick), brick, n - 1)

\* ------------------------------------------------------------------------
\* bonds/stretcher.py
\* ------------------------------------------------------------------------
\* stretcher_fill that leaves out the final brick
RECURSIVE stretcher_fill_open(_, _)
stretcher_fill_open(row, remaining_width) ==
    IF remaining_width >= mm(FULL_BRICK_LENGTH)
    THEN stretcher_fill_open(Append(row, Brick(mm(FULL_BRICK_LENGTH), "stretcher")),
                             remaining_width - mm(FULL_BRICK_LENGTH + HEAD_JOINT))
    ELSE row

\* the while loop that adds full bricks, then the final brick
RECURSIVE stretcher_fill(_, _)
stretcher_fill(row, remaining_width) ==
    IF remaining_width >= mm(FULL_BRICK_LENGTH)
    THEN stretcher_fill(Append(row, Brick(mm(FULL_BRICK_LENGTH), "stretcher")),
                        remaining_width - mm(FULL_BRICK_LENGTH + HEAD_JOINT))
    ELSE IF remaining_width > 0
         THEN Append(row, Brick(Min(remaining_width, mm(HALF_BRICK_LENGTH)), "stretcher"))
         ELSE row

\* a stretcher course generator without the half brick of the odd courses
stretcher_course_unshifted(course) == stretcher_fill(<<>>, mm(WALL_WIDTH))

initialize_stretcher_course(course) ==
    IF course % 2 = 1
    THEN stretcher_fill(<<Brick(mm(HALF_BRICK_LENGTH), "stretcher")>>,
                        mm(WALL_WIDTH - HALF_BRICK_LENGTH - HEAD_JOINT))
    ELSE stretcher_fill(<<>>, mm(WALL_WIDTH))

\* ------------------------------------------------------------------------
\* bonds/english_cross.py
\* ------------------------------------------------------------------------
\* One branch of the generator: the bricks of `row` end at x_pos (joint
\* included); int(available_width / (unit + HEAD_JOINT)) full bricks follow,
\* then the last brick that reaches the wall width.
english_cross_fill(row, x_pos, unit, orientation) ==
    LET available_width == mm(WALL_WIDTH) - x_pos
        num == available_width \div (unit + mm(HEAD_JOINT))
        filled == AppendN(row, Brick(unit, orientation), num)
        end_pos == x_pos + num * (unit + mm(HEAD_JOINT))
        remaining_width == mm(WALL_WIDTH) - end_pos
    IN  IF remaining_width > 0
        THEN Append(filled, Brick(remaining_width, orientation))
        ELSE filled

\* the verification step: adjust the last brick when the width is off
english_cross_verify(row) ==
    IF course_width(row) # mm(WALL_WIDTH)
    THEN AdjustLast(row, mm(WALL_WIDTH) - course_width(row))
    ELSE row

initialize_english_cross_course(course) ==
    LET course_type == course % 4
        quarter_offset == mm(FULL_BRICK_LENGTH) \div 4
        half_offset == mm(FULL_BRICK_LENGTH) \div 2
        \* the source computes FULL_BRICK_LENGTH / 4 in the type 3 branch too
        three_quarter_offset == mm(FULL_BRICK_LENGTH) \div 4
        row ==
          CASE course_type = 0 ->
                 english_cross_fill(<<>>, 0, mm(FULL_BRICK_LENGTH), "stretcher")
            [] course_type = 1 ->
                 english_cross_fill(<<Brick(quarter_offset, "header")>>,
                                    quarter_offset + mm(HEAD_JOINT),
                                    mm(FULL_BRICK_WIDTH), "header")
            [] course_type = 2 ->
                 english_cross_fill(<<Brick(half_offset, "stretcher")>>,
                                    half_offset + mm(HEAD_JOINT),
                                    mm(FULL_BRICK_LENGTH), "stretcher")
            [] OTHER ->
                 english_cross_fill(<<Brick(three_quarter_offset, "header")>>,
                                    three_quarter_offset + mm(HEAD_JOINT),
                                    mm(FULL_BRICK_WIDTH), "header")
    IN  english_cross_verify(row)

\* ------------------------------------------------------------------------
\* bonds/wild.py
\* ------------------------------------------------------------------------
quarter_brick == mm(FULL_BRICK_LENGTH) \div 4

\* prev_head_joints: the end position of every header of the course below
RECURSIVE prev_head_joints(_, _, _)
prev_head_joints(prev_row, i, current_pos) ==
    IF i > Len(prev_row) THEN <<>>
    ELSE LET end == current_pos + prev_row[i][1]
         IN  (IF prev_row[i][3] = "header" THEN <<end>> ELSE <<>>)
             \o prev_head_joints(prev_row, i + 1, end + mm(HEAD_JOINT))

\* the brick end positions of course c (0-based), as records
RECURSIVE brick_ends(_, _, _, _)
brick_ends(row, c, i, x_pos) ==
    IF i > Len(row) THEN <<>>
    ELSE LET end == x_pos + row[i][1]
         IN  <<[x |-> end, course |-> c, index |-> i - 1]>>
             \o brick_ends(row, c, i + 1, end + mm(HEAD_JOINT))

\* the first prev_end aligned with `end` (0 when there is none)
first_aligned(end, prev_course_ends) ==
    LET S == {j \in 1..Len(prev_course_ends) :
                 Abs(end.x - prev_course_ends[j].x) < quarter_brick}
    IN  IF S = {} THEN 0 ELSE MinOf(S)

\* for end in current_course_ends: extend a pattern or start a new one
RECURSIVE teeth_ends(_, _, _, _)
teeth_ends(patterns, current_course_ends, prev_course_ends, k) ==
    IF k > Len(current_course_ends) THEN patterns
    ELSE Eager(patterns,
         LET end == current_course_ends[k]
             j == first_aligned(end, prev_course_ends)
         IN  IF j = 0
             THEN teeth_ends(patterns, current_course_ends, prev_course_ends, k + 1)
             ELSE LET prev_end == prev_course_ends[j]
                      E == {n \in 1..Len(patterns) :
                              /\ patterns[n][Len(patterns[n])].course = prev_end.course
                              /\ Abs(patterns[n][Len(patterns[n])].x - prev_end.x) < mm(1)}
                      next == IF E = {}
                              THEN Append(patterns, <<prev_end, end>>)
                              ELSE [patterns EXCEPT ![MinOf(E)] = Append(@, end)]
                  IN  teeth_ends(next, current_course_ends, prev_course_ends, k + 1))

\* for i in range(len(course_brick_ends) - 1, 0, -1)
RECURSIVE teeth_courses(_, _, _)
teeth_courses(patterns, course_brick_ends, i) ==
    IF i < 2 THEN patterns
    ELSE Eager(patterns,
               teeth_courses(teeth_ends(patterns, course_brick_ends[i],
                                        course_brick_ends[i - 1], 1),
                             course_brick_ends, i - 1))

\* rows is the wall generated so far, the row of course c at index c + 1
identify_falling_teeth_patterns(course, rows) ==
    IF course <= 1 THEN <<>>
    ELSE LET lo == Max(0, course - 5)
             course_brick_ends ==
                 [n \in 1..(course - lo) |-> brick_ends(rows[lo + n], lo + n - 1, 1, 0)]
             patterns == teeth_courses(<<>>, course_brick_ends, Len(course_brick_ends))
         IN  SelectSeq(patterns, LAMBDA p : Len(p) >= 2)

\* One evaluation of the interior loop's body.  st is the loop state:
\* x_pos, interior_plan, consecutive_headers, consecutive_stretchers, done.
wild_choose_header(st, course, joints) ==
    IF st.consecutive_headers >= 3 THEN FALSE
    ELSE IF st.consecutive_stretchers >= 5 THEN TRUE
    ELSE IF Len(st.interior_plan) = 0 THEN course % 3 = 1
    ELSE LET base == \/ (st.x_pos + mm(course)) % mm(7) = 0
                     \/ (st.x_pos + mm(course)) % mm(11) = 0
             potential_joint_pos ==
                 st.x_pos + (IF base THEN mm(FULL_BRICK_WIDTH) ELSE mm(FULL_BRICK_LENGTH))
             too_close == \E n \in 1..Len(joints) :
                             Abs(potential_joint_pos - joints[n]) < quarter_brick
         IN  IF course > 0 /\ too_close THEN ~base ELSE base

wild_would_extend(brick_end_pos, falling_teeth_patterns) ==
    \E n \in 1..Len(falling_teeth_patterns) :
        LET pattern == falling_teeth_patterns[n]
        IN  /\ Len(pattern) >= 5
            /\ Abs(brick_end_pos - pattern[Len(pattern)].x) < quarter_brick

safe_width_threshold == mm(WALL_WIDTH - HALF_BRICK_LENGTH)

RECURSIVE wild_interior(_, _, _, _)
wild_interior(st, course, joints, falling_teeth_patterns) ==
    IF ~(st.x_pos + mm(FULL_BRICK_WIDTH + HEAD_JOINT) < safe_width_threshold)
    THEN st.interior_plan
    ELSE LET place_header == wild_choose_header(st, course, joints)
             first_length == IF place_header THEN mm(FULL_BRICK_WIDTH)
                                             ELSE mm(FULL_BRICK_LENGTH)
             would_extend_pattern ==
                 wild_would_extend(st.x_pos + first_length, falling_teeth_patterns)
             is_header == IF would_extend_pattern THEN ~place_header ELSE place_header
             brick_length == IF is_header THEN mm(FULL_BRICK_WIDTH)
                                          ELSE mm(FULL_BRICK_LENGTH)
             orientation == IF is_header THEN "header" ELSE "stretcher"
         IN  IF st.x_pos + brick_length + mm(HEAD_JOINT) <= safe_width_threshold
             THEN wild_interior(
                    [x_pos |-> st.x_pos + brick_length + mm(HEAD_JOINT),
                     interior_plan |-> Append(st.interior_plan, Brick(brick_length, orientation)),
                     consecutive_headers |-> IF is_header THEN st.consecutive_headers + 1 ELSE 0,
                     consecutive_stretchers |-> IF is_header THEN 0 ELSE st.consecutive_stretchers + 1],
                    course, joints, falling_teeth_patterns)
             ELSE st.interior_plan

\* the final brick, then the final verification of the course width
wild_close(row) ==
    LET current_width == IF Len(row) > 0 THEN course_width(row) ELSE 0
        final_brick_length == mm(WALL_WIDTH) - current_width
        closed == IF final_brick_length >= quarter_brick
                  THEN Append(row, Brick(final_brick_length, "stretcher"))
                  ELSE IF Len(row) > 0 THEN AdjustLast(row, final_brick_length)
                  ELSE row
    IN  IF course_width(closed) # mm(WALL_WIDTH)
        THEN AdjustLast(closed, mm(WALL_WIDTH) - course_width(closed))
        ELSE closed

\* a wild course generator that lays every course like the course below it
wild_course_unshifted(course, rows) == initialize_stretcher_course(0)

initialize_wild_bond_course(course, rows) ==
    LET joints == IF course > 0 THEN prev_head_joints(rows[course], 1, 0) ELSE <<>>
        falling_teeth_patterns ==
            IF course > 0 THEN identify_falling_teeth_patterns(course, rows) ELSE <<>>
        starting_offset == (course % 4) * quarter_brick
        left_edge == IF course % 4 = 0 THEN <<>>
                     ELSE <<Brick(starting_offset, "stretcher")>>
        interior_plan ==
            wild_interior([x_pos |-> starting_offset, interior_plan |-> <<>>,
                           consecutive_headers |-> 0, consecutive_stretchers |-> 0],
                          course, joints, falling_teeth_patterns)
    IN  wild_close(left_edge \o interior_plan)

\* ------------------------------------------------------------------------
\* models/wall.py: _initialize_wall
\* ------------------------------------------------------------------------
RECURSIVE initialize_wall_from(_, _, _)
initialize_wall_from(bond_type, course, rows) ==
    IF course >= NUM_COURSES THEN rows
    ELSE LET row == CASE bond_type = STRETCHER_BOND -> initialize_stretcher_course(course)
                      [] bond_type = ENGLISH_CROSS_BOND -> initialize_english_cross_course(course)
                      [] OTHER -> initialize_wild_bond_course(course, rows)
         IN  Eager(row, initialize_wall_from(bond_type, course + 1, Append(rows, row)))

initialize_wall(bond_type) == initialize_wall_from(bond_type, 0, <<>>)


\* ------------------------------------------------------------------------
\* models/wall.py: _calculate_brick_positions, brick_in_stride
\* ------------------------------------------------------------------------
\* course_positions of one course: x_pos advances by length + HEAD_JOINT
RECURSIVE course_positions(_, _, _, _)
course_positions(row, course, i, x_pos) ==
    IF i > Len(row) THEN <<>>
    ELSE <<[x |-> x_pos, y |-> course * COURSE_HEIGHT_U,
            length |-> row[i][1], height |-> mm(FULL_BRICK_HEIGHT),
            course |-> course, position |-> i - 1, orientation |-> row[i][3]]>>
         \o course_positions(row, course, i + 1, x_pos + row[i][1] + mm(HEAD_JOINT))

calculate_brick_positions(grid) ==
    [c \in 1..Len(grid) |-> course_positions(grid[c], c - 1, 1, 0)] \o <<>>

\* the brick of course c at position p (both 0-based, as in the program)
PositionOf(w, c, p) == w.brick_positions[c + 1][p + 1]
IsBuilt(w, c, p) == w.grid[c + 1][p + 1][2] = 1
CourseLen(w, c) == Len(w.grid[c + 1])

\* Wall.brick_in_stride and StrideOptimizer.brick_in_stride (the same test)
\* brick_in_stride without the far sides of the footprint
in_stride_open(brick, stride_x, stride_y) ==
    /\ brick.x >= stride_x
    /\ brick.y >= stride_y

in_stride(brick, stride_x, stride_y) ==
    /\ brick.x >= stride_x
    /\ brick.x + brick.length <= stride_x + mm(STRIDE_WIDTH)
    /\ brick.y >= stride_y
    /\ brick.y + brick.height <= stride_y + mm(STRIDE_HEIGHT)

brick_in_stride(w, course, position, stride_x, stride_y) ==
    in_stride(PositionOf(w, course, position), stride_x, stride_y)

\* Distance without the weights of the two directions
distance_unweighted(from, to) ==
    2 * (Abs(to[1] - from[1]) + Abs(to[2] - from[2]))

\* the weighted distance between two points, in eighths of a millimetre:
\* h_dist * HORIZONTAL_MOVE_COST + v_dist * VERTICAL_MOVE_COST
Distance(from, to) ==
    Abs(to[1] - from[1]) * HORIZONTAL_MOVE_COST_X2
    + Abs(to[2] - from[2]) * VERTICAL_MOVE_COST_X2

\* (x + length / 2, y + height / 2); length / 2 is a multiple of 0.25 mm
Center(brick) == <<brick.x + brick.length \div 2, brick.y + brick.height \div 2>>

\* ------------------------------------------------------------------------
\* optimizer/support_checker.py
\* ------------------------------------------------------------------------
\* the overlap of [brick_start_x, brick_end_x] with the brick pos below it
Overlap(brick_start_x, brick_end_x, pos) ==
    IF pos.x < brick_end_x /\ pos.x + pos.length > brick_start_x
    THEN Min(brick_end_x, pos.x + pos.length) - Max(brick_start_x, pos.x)
    ELSE 0

\* The sum of a loop "for i ...: if cond(i): total += term(i)" whose terms are
\* not negative: the terms that are positive, added up.
\* The value v handed to the rest of the computation F, as a local variable
\* is; the test makes v a value before F is entered.
With(v, F(_)) == IF v = v THEN F(v) ELSE v

\* A loop "for x in s: acc = step(acc, x)".  The iterations run in the order
\* of s; the sequence is taken in halves so that the evaluation stays shallow.
RECURSIVE FoldSeq(_, _, _)
FoldSeq(step(_, _), s, acc) ==
    IF s = <<>> THEN acc
    ELSE IF Len(s) = 1 THEN step(acc, s[1])
    ELSE With(FoldSeq(step, SubSeq(s, 1, Len(s) \div 2), acc),
              LAMBDA half : FoldSeq(step, SubSeq(s, Len(s) \div 2 + 1, Len(s)), half))

SumOver(S, term(_)) ==
    BagCardinality([i \in {j \in S : term(j) > 0} |-> term(i)])

\* support_length of _is_supported: the loop over brick_positions[course-1]
support_length(w, course, brick) ==
    SumOver({i \in 1..CourseLen(w, course - 1) : IsBuilt(w, course - 1, i - 1)},
            LAMBDA i : Overlap(brick.x, brick.x + brick.length,
                               PositionOf(w, course - 1, i - 1)))

\* reaches_threshold with ">" in the place of ">="
reaches_above_threshold(support, length) == 10 * support > SUPPORT_THRESHOLD_X10 * length

\* reaches_threshold with a threshold of 1.0
reaches_full_length(support, length) == support >= length

\* support_ratio >= SUPPORT_THRESHOLD, with support_ratio = support_length / length
reaches_threshold(support, length) == 10 * support >= SUPPORT_THRESHOLD_X10 * length

\* _is_supported that counts the bricks below whether they are built or not
is_supported_unbuilt(w, course, position) ==
    IF course = 0 THEN TRUE
    ELSE reaches_threshold(
             SumOver(1..CourseLen(w, course - 1),
                     LAMBDA i : Overlap(PositionOf(w, course, position).x,
                                        PositionOf(w, course, position).x
                                          + PositionOf(w, course, position).length,
                                        PositionOf(w, course - 1, i - 1))),
             PositionOf(w, course, position).length)

is_supported(w, course, position) ==
    IF course = 0 THEN TRUE
    ELSE LET brick == PositionOf(w, course, position)
         IN  reaches_threshold(support_length(w, course, brick), brick.length)

\* support_length of _calculate_support_level: built bricks and added_bricks
support_level_length(w, course, brick, added_bricks) ==
    SumOver({i \in 1..CourseLen(w, course - 1) :
                 IsBuilt(w, course - 1, i - 1) \/ <<course - 1, i - 1>> \in added_bricks},
            LAMBDA i : Overlap(brick.x, brick.x + brick.length,
                               PositionOf(w, course - 1, i - 1)))

\* _would_be_supported that leaves added_bricks out
would_be_supported_built(w, course, position, added_bricks) ==
    IF course = 0 THEN TRUE
    ELSE reaches_threshold(support_length(w, course, PositionOf(w, course, position)),
                           PositionOf(w, course, position).length)

\* _would_be_supported: _calculate_support_level(...) >= SUPPORT_THRESHOLD
would_be_supported(w, course, position, added_bricks) ==
    IF course = 0 THEN TRUE
    ELSE LET brick == PositionOf(w, course, position)
         IN  reaches_threshold(support_level_length(w, course, brick, added_bricks),
                               brick.length)

\* can_place without the bricks added so far
can_place_on_built(w, course, position, added) ==
    \/ course = 0
    \/ is_supported(w, course, position)

\* can_place, as the optimizer computes it in three places
can_place(w, course, position, added) ==
    \/ course = 0
    \/ is_supported(w, course, position)
    \/ would_be_supported(w, course, position, added)

\* ------------------------------------------------------------------------
\* optimizer/stride_optimizer.py: the bricks one stride can take
\* ------------------------------------------------------------------------
Range(s) == {s[i] : i \in DOMAIN s}

\* The bricks that pass brick_in_stride for the stride at (stride_x, stride_y),
\* kept per course: entry course + 1 lists the (course, position) pairs of that
\* course in position order.
bricks_in_stride(positions, stride_x, stride_y) ==
    [c \in 1..NUM_COURSES |->
        SelectSeq([p \in 1..Len(positions[c]) |-> <<c - 1, p - 1>>],
                  LAMBDA b : in_stride(positions[c][b[2] + 1], stride_x, stride_y))]
    \o <<>>

\* unbuilt_bricks of _get_all_placeable_bricks_in_stride, kept per course; the
\* program's list is the concatenation of the entries.
unbuilt_among(w, in_stride_bricks) ==
    [c \in 1..NUM_COURSES |->
        SelectSeq(in_stride_bricks[c], LAMBDA b : ~IsBuilt(w, b[1], b[2]))]
    \o <<>>

max_passes == 5

\* One pass of the "for brick in remaining_unbuilt" loop.  remaining_unbuilt is
\* sorted by course and _would_be_supported reads only the entries of
\* course - 1 in added_bricks, so the bricks of one course are decided against
\* the same added_bricks and the pass is taken one course at a time, over the
\* courses that have bricks in unbuilt_bricks.
closure_course(w, unbuilt, acc, course) ==
    With(SelectSeq(unbuilt[course + 1],
             LAMBDA b : /\ b \notin acc.added
                        /\ can_place(w, b[1], b[2], acc.added)),
         LAMBDA new : IF new = <<>> THEN acc
                      ELSE [placeable |-> acc.placeable \o new,
                            added |-> acc.added \cup Range(new)])

closure_pass(w, unbuilt, courses, acc) ==
    FoldSeq(LAMBDA a, course : closure_course(w, unbuilt, a, course), courses, acc)

\* the courses of unbuilt_bricks, ascending
unbuilt_courses(unbuilt) ==
    SelectSeq([c \in 1..NUM_COURSES |-> c - 1], LAMBDA c : unbuilt[c + 1] # <<>>)

\* "for _ in range(max_passes)", leaving when a pass added nothing
RECURSIVE closure_passes(_, _, _, _)
closure_passes(w, unbuilt, acc, passes_left) ==
    IF passes_left = 0 THEN acc
    ELSE With(closure_pass(w, unbuilt, unbuilt_courses(unbuilt), acc),
              LAMBDA next :
                  IF Len(next.placeable) = Len(acc.placeable) THEN next
                  ELSE closure_passes(w, unbuilt, next, passes_left - 1))

\* the placeable bricks among unbuilt_bricks: the first-course bricks, then
\* the passes
placeable_among(w, unbuilt) ==
    closure_passes(w, unbuilt, [placeable |-> unbuilt[1], added |-> Range(unbuilt[1])],
                   max_passes).placeable

get_all_placeable_bricks_in_stride(w, stride_x, stride_y) ==
    placeable_among(w, unbuilt_among(w, bricks_in_stride(w.brick_positions, stride_x, stride_y)))

\* ------------------------------------------------------------------------
\* the grid search of _find_optimal_stride_position_maximized
\* ------------------------------------------------------------------------
step_size == Min(STRIDE_WIDTH, STRIDE_HEIGHT) \div 8

\* a / b > c / d for a, c >= 0 and b, d > 0, by the Euclidean expansion
RECURSIVE FracGreater(_, _, _, _)
FracGreater(a, b, c, d) ==
    IF a \div b # c \div d THEN a \div b > c \div d
    ELSE IF a % b = 0 THEN FALSE
    ELSE IF c % d = 0 THEN TRUE
    ELSE FracGreater(d, c % d, b, a % b)

\* remaining = total_in_course - built_in_course
remaining_in_course(w, course) ==
    Cardinality({p \in 1..Len(w.grid[course + 1]) : w.grid[course + 1][p][2] # 1})

\* The three parts of score = num_bricks * 1000 + 5000 / (closest_distance + 1)
\* + 500 per course with count >= remaining * 0.9; closest is in eighths of a
\* millimetre.
stride_score(w, placeable) ==
    [neg_inf |-> FALSE,
     num |-> Len(placeable),
     closest |-> MinOf({Distance(w.robot_position, Center(PositionOf(w, b[1], b[2])))
                          : b \in Range(placeable)}),
     bonus |-> Cardinality({c \in {b[1] : b \in Range(placeable)} :
                  10 * Cardinality({b \in Range(placeable) : b[1] = c})
                      >= 9 * remaining_in_course(w, c)})]

\* score s1 > score s2 as exact rationals.  Divided by 500 a score is
\* 2 * num + bonus + 80 / (closest + 8), the last term lying in (0, 10].
score_greater(s1, s2) ==
    IF s2.neg_inf THEN TRUE
    ELSE LET k == 2 * (s1.num - s2.num) + (s1.bonus - s2.bonus)
         IN  IF k >= 10 THEN TRUE
             ELSE IF k <= -10 THEN FALSE
             ELSE IF 80 + k * (s1.closest + 8) <= 0 THEN FALSE
             ELSE FracGreater(80 + k * (s1.closest + 8), s1.closest + 8,
                              80, s2.closest + 8)

no_stride == [count |-> 0, score |-> [neg_inf |-> TRUE], pos |-> <<>>, bricks |-> <<>>]

\* range(0, int(limit) + 1, max(1, int(step_size))), in millimetres
stride_range(limit) == {k * Max(1, step_size) : k \in 0..(limit \div Max(1, step_size))}

\* the stride positions in the order of the two nested loops, x outermost
stride_positions ==
    LET xs == stride_range(WALL_WIDTH - STRIDE_WIDTH)
        ys == stride_range(WALL_HEIGHT - STRIDE_HEIGHT)
        ny == Cardinality(ys)
    IN  [i \in 1..(Cardinality(xs) * ny) |->
            <<((i - 1) \div ny) * Max(1, step_size), ((i - 1) % ny) * Max(1, step_size)>>]
        \o <<>>

\* what one iteration of the loops computes for the i-th position (x, y)
stride_candidate(w, i) ==
    With(get_all_placeable_bricks_in_stride(w, mm(stride_positions[i][1]),
                                            mm(stride_positions[i][2])),
         LAMBDA placeable_bricks :
             IF placeable_bricks = <<>> THEN no_stride
             ELSE [count |-> Len(placeable_bricks),
                   score |-> stride_score(w, placeable_bricks),
                   pos |-> stride_positions[i], bricks |-> placeable_bricks])

\* "if num_bricks > best_count or (num_bricks == best_count and score >
\* best_score)": candidate a replaces the kept candidate b
replaces(a, b) ==
    /\ a.count > 0
    /\ \/ a.count > b.count
       \/ a.count = b.count /\ score_greater(a.score, b.score)

\* a search that keeps the first position with placeable bricks
first_candidate(candidates) ==
    With({i \in DOMAIN candidates : candidates[i].count > 0},
         LAMBDA found : IF found = {} THEN no_stride ELSE candidates[MinOf(found)])

\* The candidate the loops end with: each iteration keeps the new candidate
\* exactly when it replaces the kept one, so the last kept candidate is the
\* earliest one that no candidate replaces.
kept_candidate(candidates) ==
    With({i \in DOMAIN candidates :
             /\ candidates[i].count > 0
             /\ \A j \in DOMAIN candidates : ~replaces(candidates[j], candidates[i])},
         LAMBDA kept : IF kept = {} THEN no_stride ELSE candidates[MinOf(kept)])

search(w) ==
    kept_candidate([i \in DOMAIN stride_positions |-> stride_candidate(w, i)] \o <<>>)

\* best_bricks when a position was kept, otherwise the queue is left as it is
find_optimal_stride_position_maximized(w) ==
    With(search(w),
         LAMBDA best :
             IF best.pos # <<>> THEN [w EXCEPT !.current_stride_bricks = best.bricks]
             ELSE w)

\* ------------------------------------------------------------------------
\* the order of the queue
\* ------------------------------------------------------------------------
\* the courses of a queue in ascending order: sorted(bricks_by_course.keys())
sorted_courses(S) ==
    [k \in 1..Cardinality(S) |-> CHOOSE c \in S : Cardinality({d \in S : d < c}) = k - 1]
    \o <<>>

bricks_of_course(bricks, course) == SelectSeq(bricks, LAMBDA b : b[1] = course)

RemoveAt(s, i) == SubSeq(s, 1, i - 1) \o SubSeq(s, i + 1, Len(s))

\* the first index of S whose brick is nearest to current_pos ("distance <
\* closest_distance" keeps the earliest of equally near bricks)
closest_index(w, course_bricks, S, current_pos) ==
    LET d(i) == Distance(current_pos, Center(PositionOf(w, course_bricks[i][1],
                                                        course_bricks[i][2])))
    IN  CHOOSE i \in S : \A j \in S : d(i) < d(j) \/ (d(i) = d(j) /\ i <= j)

\* "while course_bricks" of _optimize_brick_placement_order for one course;
\* st.left collects the bricks the loop leaves behind
\* "ordered_bricks.append(brick)", "added_bricks.add(...)" and "current_pos =
\* brick_pos" for the brick the loops take
\* take_brick without "added_bricks.add(...)"
take_brick_unremembered(w, st, brick) ==
    [st EXCEPT !.order = Append(@, brick),
               !.pos = Center(PositionOf(w, brick[1], brick[2]))]

take_brick(w, st, brick) ==
    [st EXCEPT !.order = Append(@, brick),
               !.added = @ \cup {brick},
               !.pos = Center(PositionOf(w, brick[1], brick[2]))]

\* One iteration of the "while course_bricks" loop for one course; st.rest is
\* course_bricks and st.stop tells that the loop has been left by "break".
order_next(w, st) ==
    IF st.stop \/ st.rest = <<>> THEN st
    ELSE With({i \in 1..Len(st.rest) :
                  can_place(w, st.rest[i][1], st.rest[i][2], st.added)},
              LAMBDA placeable :
                  IF placeable = {} THEN [st EXCEPT !.stop = TRUE]
                  ELSE With(closest_index(w, st.rest, placeable, st.pos),
                            LAMBDA i : [take_brick(w, st, st.rest[i])
                                           EXCEPT !.rest = RemoveAt(st.rest, i)]))

\* the loop for one course: at most one iteration per brick of the course;
\* what it leaves goes to remaining_bricks
order_course(w, course, course_bricks, st) ==
    With(FoldSeq(LAMBDA a, b : order_next(w, a), course_bricks,
                 [st EXCEPT !.rest = course_bricks, !.stop = FALSE]),
         LAMBDA done : [done EXCEPT !.left = @ \o done.rest])

order_courses(w, bricks, courses, st) ==
    FoldSeq(LAMBDA a, course : order_course(w, course, bricks_of_course(bricks, course), a),
            courses, st)

\* the scan "while i < len(remaining_bricks)" of the second pass
RECURSIVE second_scan(_, _, _, _)
second_scan(w, remaining, i, st) ==
    IF i > Len(remaining) THEN [st EXCEPT !.left = remaining]
    ELSE IF can_place(w, remaining[i][1], remaining[i][2], st.added)
         THEN second_scan(w, RemoveAt(remaining, i), i, take_brick(w, st, remaining[i]))
         ELSE second_scan(w, remaining, i + 1, st)

max_iterations == 3

\* the bricks sorted by course, equal courses keeping their order (list.sort)
concat_courses(bricks, courses) ==
    FoldSeq(LAMBDA a, course : a \o bricks_of_course(bricks, course), courses, <<>>)

sort_by_course(bricks) ==
    concat_courses(bricks, sorted_courses({b[1] : b \in Range(bricks)}))

RECURSIVE second_pass(_, _, _)
second_pass(w, st, iteration) ==
    IF st.left = <<>> \/ iteration >= max_iterations THEN st
    ELSE With(second_scan(w, sort_by_course(st.left), 1, st),
              LAMBDA next : IF Len(next.order) = Len(st.order) THEN next
                            ELSE second_pass(w, next, iteration + 1))

\* an ordering that hands the bricks of the stride over from the top down
placement_order_top_down(w) ==
    [w EXCEPT !.current_stride_bricks = [i \in 1..Len(@) |-> @[Len(@) + 1 - i]] \o <<>>]

optimize_brick_placement_order(w) ==
    IF w.current_stride_bricks = <<>> THEN w
    ELSE [w EXCEPT !.current_stride_bricks =
             second_pass(w,
                 order_courses(w, w.current_stride_bricks,
                     sorted_courses({b[1] : b \in Range(w.current_stride_bricks)}),
                     [order |-> <<>>, added |-> {}, pos |-> w.robot_position,
                      left |-> <<>>, rest |-> <<>>, stop |-> FALSE]),
                 0).order]

\* "while course_bricks" of _optimize_movement_within_courses for one course
nearest_next(w, st) ==
    With(closest_index(w, st.rest, 1..Len(st.rest), st.pos),
         LAMBDA i : [order |-> Append(st.order, st.rest[i]),
                     pos |-> Center(PositionOf(w, st.rest[i][1], st.rest[i][2])),
                     rest |-> RemoveAt(st.rest, i)])

\* one iteration per brick of the course
nearest_first(w, course_bricks, st) ==
    FoldSeq(LAMBDA a, b : nearest_next(w, a), course_bricks,
            [st EXCEPT !.rest = course_bricks])

movement_courses(w, bricks, courses, st) ==
    FoldSeq(LAMBDA a, course : nearest_first(w, bricks_of_course(bricks, course), a),
            courses, st)

optimize_movement_within_courses(w) ==
    IF w.current_stride_bricks = <<>> THEN w
    ELSE [w EXCEPT !.current_stride_bricks =
             movement_courses(w, w.current_stride_bricks,
                 sorted_courses({b[1] : b \in Range(w.current_stride_bricks)}),
                 [order |-> <<>>, pos |-> w.robot_position, rest |-> <<>>]).order]

\* a scan that takes every unbuilt brick of courses course..
any_placeable_unbuilt(w, course) ==
    FoldSeq(LAMBDA a, c :
                a \o SelectSeq([p \in 1..Len(w.grid[c + 1]) |-> <<c, p - 1>>],
                        LAMBDA b : ~IsBuilt(w, b[1], b[2])),
            [c \in 1..(NUM_COURSES - course) |-> course + c - 1], <<>>)

\* the unbuilt bricks of courses course.. that are on course 0 or supported
any_placeable(w, course) ==
    FoldSeq(LAMBDA a, c :
                a \o SelectSeq([p \in 1..Len(w.grid[c + 1]) |-> <<c, p - 1>>],
                        LAMBDA b : /\ ~IsBuilt(w, b[1], b[2])
                                   /\ (c = 0 \/ is_supported(w, b[1], b[2]))),
            [c \in 1..(NUM_COURSES - course) |-> course + c - 1], <<>>)

find_any_placeable_bricks(w) ==
    With([w EXCEPT !.current_stride_bricks = @ \o any_placeable(w, 0)],
         LAMBDA found :
             IF found.current_stride_bricks = <<>> THEN found
             ELSE optimize_movement_within_courses(
                      [found EXCEPT !.current_stride_bricks = sort_by_course(@)]))

\* ------------------------------------------------------------------------
\* the starting position of the robot
\* ------------------------------------------------------------------------
\* stride_x = min(max(0, pos_x - STRIDE_WIDTH / 2), WALL_WIDTH - STRIDE_WIDTH)
test_stride_x(pos_x) ==
    Min(Max(0, pos_x - mm(STRIDE_WIDTH) \div 2), mm(WALL_WIDTH - STRIDE_WIDTH))

\* "if value > best" over the test positions in order, from the default
RECURSIVE best_test_position(_, _, _, _, _)
best_test_position(value(_), test_positions, i, best_value, best_position) ==
    IF i > Len(test_positions) THEN best_position
    ELSE IF value(test_positions[i]) > best_value
         THEN best_test_position(value, test_positions, i + 1,
                                 value(test_positions[i]), test_positions[i])
         ELSE best_test_position(value, test_positions, i + 1, best_value, best_position)

\* bonds/stretcher.py: the first-course bricks inside the stride at pos_x
stretcher_bricks_in_stride(positions, pos_x) ==
    Cardinality({p \in 1..Len(positions[1]) :
                    in_stride(positions[1][p], test_stride_x(pos_x), 0)})

stretcher_starting_position(grid, positions) ==
    <<best_test_position(LAMBDA pos_x : stretcher_bricks_in_stride(positions, pos_x),
          <<mm(STRIDE_WIDTH) \div 2, mm(WALL_WIDTH) \div 4, mm(WALL_WIDTH) \div 2,
            (3 * mm(WALL_WIDTH)) \div 4, mm(WALL_WIDTH) - mm(STRIDE_WIDTH) \div 2>>,
          1, 0, mm(WALL_WIDTH) \div 2), 0>>

\* bonds/wild.py: twice course_bricks of one course (1.5 for a brick whose left
\* neighbour has the other orientation, 1.0 otherwise)
RECURSIVE wild_course_bricks_x2(_, _, _, _, _)
wild_course_bricks_x2(grid, positions, course, p, stride_x) ==
    IF p > Len(grid[course + 1]) THEN 0
    ELSE (IF in_stride(positions[course + 1][p], stride_x, 0)
          THEN IF p > 1 /\ (grid[course + 1][p - 1][3] = "header")
                            # (grid[course + 1][p][3] = "header")
               THEN 3 ELSE 2
          ELSE 0)
         + wild_course_bricks_x2(grid, positions, course, p + 1, stride_x)

\* 24 * total_score: course_bricks * 1 / (course + 1) summed over the first
\* four courses, kept exact
wild_total_score_x24(grid, positions, pos_x) ==
    LET per(course) == wild_course_bricks_x2(grid, positions, course, 1,
                                             test_stride_x(pos_x))
                       * (12 \div (course + 1))
    IN  per(0) + per(1) + per(2) + per(3)

num_test_positions == 9

wild_starting_position(grid, positions) ==
    <<best_test_position(LAMBDA pos_x : wild_total_score_x24(grid, positions, pos_x),
          [i \in 1..num_test_positions |->
              ((i - 1) * mm(WALL_WIDTH)) \div (num_test_positions - 1)],
          1, 0, mm(WALL_WIDTH) \div 2), 0>>

\* The number of parameters of each bond's _get_optimal_starting_position;
\* Wall.__init__ calls every one of them with the single argument self.
starting_position_parameters(bond_type) ==
    CASE bond_type = STRETCHER_BOND -> 1
      [] bond_type = ENGLISH_CROSS_BOND -> 2
      [] OTHER -> 1

\* Wall(...) raises TypeError when the call does not fit the definition
wall_init_raises(bond_type) == starting_position_parameters(bond_type) # 1

\* the call of the bond's _get_optimal_starting_position in Wall.__init__
starting_position(bond_type, grid, positions) ==
    IF bond_type = STRETCHER_BOND THEN stretcher_starting_position(grid, positions)
    ELSE wild_starting_position(grid, positions)

\* sum(len(row) for row in self.grid)
count_bricks(grid) == SumOver(1..Len(grid), LAMBDA c : Len(grid[c]))

\* ------------------------------------------------------------------------
\* The Wall object.  Besides the fields of models/wall.py the record carries
\* ret, the value returned by the last call, and history fields no operation
\* reads: h_round counts the queue computations started by
\* calculate_next_stride, h_round_of maps each built brick to the value of
\* h_round at its placement, h_drained is the queue the last
\* place_all_bricks_in_stride entered its loop with, and h_direct, h_ones and
\* h_strides count the calls of place_brick, place_single_brick_from_stride
\* and place_all_bricks_in_stride made on the wall from outside.
\* ------------------------------------------------------------------------
ReadyMessage(bond_type, start_pos) == <<"Ready with", bond_type, start_pos>>

\* Wall.__init__ for the bond types whose construction returns
wall_fields(bond_type, grid, positions) ==
    [bond_type |-> bond_type,
     grid |-> grid,
     current_stride |-> 0,
     stride_map |-> <<>>,
     total_bricks |-> count_bricks(grid),
     placed_bricks |-> 0,
     strides_used |-> 0,
     total_movement_cost |-> 0,
     brick_positions |-> positions,
     robot_position |-> starting_position(bond_type, grid, positions),
     current_stride_bricks |-> <<>>,
     new_stride_started |-> FALSE,
     message |-> <<"Select bond type with 1/2/3; press ENTER to place bricks">>,
     current_stride_active |-> FALSE,
     stride_needs_counting |-> TRUE,
     ret |-> FALSE,
     h_round |-> 0,
     h_round_of |-> <<>>,
     h_drained |-> <<>>,
     h_direct |-> 0,
     h_ones |-> 0,
     h_strides |-> 0]

\* the fields Wall.__init__ has assigned when it reaches the call of the
\* bond's _get_optimal_starting_position (lines 47-62)
wall_before_start(bond_type, grid) ==
    [bond_type |-> bond_type,
     grid |-> grid,
     current_stride |-> 0,
     stride_map |-> <<>>,
     total_bricks |-> count_bricks(grid),
     placed_bricks |-> 0,
     strides_used |-> 0,
     total_movement_cost |-> 0,
     brick_positions |-> calculate_brick_positions(grid)]

Wall(bond_type) ==
    With(initialize_wall(bond_type),
         LAMBDA grid : wall_fields(bond_type, grid, calculate_brick_positions(grid)))

\* Construction is deterministic: the wall of each bond type is built once.
StretcherWall == Wall(STRETCHER_BOND)
WildWall == Wall(WILD_BOND)
EnglishCrossWall ==
    With(initialize_wall(ENGLISH_CROSS_BOND),
         LAMBDA grid : wall_before_start(ENGLISH_CROSS_BOND, grid))

has_unbuilt_bricks(w) == w.placed_bricks < w.total_bricks
is_complete(w) == w.placed_bricks = w.total_bricks

\* _find_maximum_bricks_for_stride
find_maximum_bricks_for_stride(w, stride_x, stride_y) ==
    [w EXCEPT !.current_stride_bricks =
                  get_all_placeable_bricks_in_stride(w, stride_x, stride_y)]

\* "if self.wall.placed_bricks == 0: ... else: ..." of calculate_next_stride
search_stride(w) ==
    IF w.placed_bricks = 0
    THEN find_maximum_bricks_for_stride(w,
             Max(0, Min(w.robot_position[1] - mm(STRIDE_WIDTH) \div 2,
                        mm(WALL_WIDTH - STRIDE_WIDTH))), 0)
    ELSE find_optimal_stride_position_maximized(w)

\* "if not self.wall.current_stride_bricks: self._find_any_placeable_bricks()"
any_if_none(w) ==
    IF w.current_stride_bricks = <<>> THEN find_any_placeable_bricks(w) ELSE w

\* "if self.wall.current_stride_bricks: ...order(); return True" / "return False"
order_found(w) ==
    IF w.current_stride_bricks # <<>>
    THEN [optimize_brick_placement_order(w) EXCEPT !.ret = TRUE]
    ELSE [w EXCEPT !.ret = FALSE]

\* calculate_next_stride that leaves stride_needs_counting as it is
calculate_next_stride_uncounted(w) ==
    IF w.placed_bricks >= w.total_bricks THEN [w EXCEPT !.ret = FALSE]
    ELSE order_found(any_if_none(search_stride(
             [w EXCEPT !.current_stride_bricks = <<>>,
                       !.new_stride_started = TRUE,
                       !.h_round = @ + 1])))

calculate_next_stride(w) ==
    IF w.placed_bricks >= w.total_bricks THEN [w EXCEPT !.ret = FALSE]
    ELSE order_found(any_if_none(search_stride(
             [w EXCEPT !.current_stride_bricks = <<>>,
                       !.new_stride_started = TRUE,
                       !.stride_needs_counting = TRUE,
                       !.h_round = @ + 1])))

\* _start_new_stride that keeps the stride id
start_new_stride_same_id(w) ==
    calculate_next_stride([w EXCEPT !.current_stride_active = FALSE,
                                    !.new_stride_started = FALSE])

start_new_stride(w) ==
    calculate_next_stride([w EXCEPT !.current_stride = @ + 1,
                                    !.current_stride_active = FALSE,
                                    !.new_stride_started = FALSE])

\* ------------------------------------------------------------------------
\* optimizer/brick_placer.py
\* ------------------------------------------------------------------------
\* what place_brick does once it has accepted the brick
\* lines 64-95 writing the grid entry as a built stretcher
commit_brick_as_stretcher(w, course, position) ==
    [w EXCEPT !.total_movement_cost =
                  @ + Distance(w.robot_position, Center(PositionOf(w, course, position))),
              !.grid[course + 1][position + 1] = <<@[1], 1, "stretcher">>,
              !.stride_map = (<<course, position>> :> w.current_stride) @@ @,
              !.placed_bricks = @ + 1,
              !.robot_position = Center(PositionOf(w, course, position)),
              !.current_stride_active = TRUE,
              !.strides_used = IF w.stride_needs_counting THEN @ + 1 ELSE @,
              !.stride_needs_counting = FALSE,
              !.h_round_of = (<<course, position>> :> w.h_round) @@ @,
              !.ret = TRUE]

commit_brick(w, course, position) ==
    [w EXCEPT !.total_movement_cost =
                  @ + Distance(w.robot_position, Center(PositionOf(w, course, position))),
              !.grid[course + 1][position + 1][2] = 1,
              !.stride_map = (<<course, position>> :> w.current_stride) @@ @,
              !.placed_bricks = @ + 1,
              !.robot_position = Center(PositionOf(w, course, position)),
              !.current_stride_active = TRUE,
              !.strides_used = IF w.stride_needs_counting THEN @ + 1 ELSE @,
              !.stride_needs_counting = FALSE,
              !.h_round_of = (<<course, position>> :> w.h_round) @@ @,
              !.ret = TRUE]

\* place_brick without the support test
place_brick_unsupported(w, course, position) ==
    IF course < 0 \/ course >= NUM_COURSES THEN [w EXCEPT !.ret = FALSE]
    ELSE IF position < 0 \/ position >= CourseLen(w, course) THEN [w EXCEPT !.ret = FALSE]
    ELSE IF IsBuilt(w, course, position) THEN [w EXCEPT !.ret = FALSE]
    ELSE commit_brick(w, course, position)

\* place_brick without the test for a brick that is built already
place_brick_rebuilt(w, course, position) ==
    IF course < 0 \/ course >= NUM_COURSES THEN [w EXCEPT !.ret = FALSE]
    ELSE IF position < 0 \/ position >= CourseLen(w, course) THEN [w EXCEPT !.ret = FALSE]
    ELSE IF course > 0 /\ ~is_supported(w, course, position) THEN [w EXCEPT !.ret = FALSE]
    ELSE commit_brick(w, course, position)

\* place_brick that does not count the brick
place_brick_uncounted(w, course, position) ==
    IF course < 0 \/ course >= NUM_COURSES THEN [w EXCEPT !.ret = FALSE]
    ELSE IF position < 0 \/ position >= CourseLen(w, course) THEN [w EXCEPT !.ret = FALSE]
    ELSE IF IsBuilt(w, course, position) THEN [w EXCEPT !.ret = FALSE]
    ELSE IF course > 0 /\ ~is_supported(w, course, position) THEN [w EXCEPT !.ret = FALSE]
    ELSE [commit_brick(w, course, position) EXCEPT !.placed_bricks = w.placed_bricks]

place_brick(w, course, position) ==
    IF course < 0 \/ course >= NUM_COURSES THEN [w EXCEPT !.ret = FALSE]
    ELSE IF position < 0 \/ position >= CourseLen(w, course) THEN [w EXCEPT !.ret = FALSE]
    ELSE IF IsBuilt(w, course, position) THEN [w EXCEPT !.ret = FALSE]
    ELSE IF course > 0 /\ ~is_supported(w, course, position) THEN [w EXCEPT !.ret = FALSE]
    ELSE commit_brick(w, course, position)

\* The queue is empty: what place_single_brick_from_stride and
\* place_all_bricks_in_stride do after their own first lines.  ret is FALSE
\* where the caller returns False at once.
alternative(w) ==
    IF w.current_stride_bricks # <<>>
    THEN [optimize_brick_placement_order(w) EXCEPT !.ret = TRUE]
    ELSE [w EXCEPT !.message = <<"No more bricks can be placed!">>, !.ret = FALSE]

after_next_stride(w) ==
    IF w.ret THEN w
    ELSE IF has_unbuilt_bricks(w)
    THEN alternative(find_any_placeable_bricks(
             [w EXCEPT !.message =
                 <<"Trying alternative approach to find placeable bricks...">>]))
    ELSE [w EXCEPT !.message = <<"Wall is complete!">>, !.ret = FALSE]

refill(w) == after_next_stride(calculate_next_stride(w))

\* "brick = self.wall.current_stride_bricks.pop(0)" and place_brick on it
pop_and_place(w) ==
    place_brick([w EXCEPT !.current_stride_bricks = Tail(@)],
                Head(w.current_stride_bricks)[1], Head(w.current_stride_bricks)[2])

\* the lines after the "if not self.wall.current_stride_bricks:" block
place_next(w) ==
    IF ~w.ret THEN w
    ELSE IF w.current_stride_bricks # <<>> THEN pop_and_place(w)
    ELSE [w EXCEPT !.ret = FALSE]

place_single_brick_from_stride(w) ==
    place_next(IF w.current_stride_bricks # <<>> THEN [w EXCEPT !.ret = TRUE]
               ELSE IF ~has_unbuilt_bricks(w)
               THEN [w EXCEPT !.message = <<"Wall is complete!">>, !.ret = FALSE]
               ELSE refill(IF w.current_stride_active
                           THEN [w EXCEPT !.current_stride = @ + 1,
                                          !.current_stride_active = FALSE]
                           ELSE w))

\* "while self.wall.current_stride_bricks", placed telling whether any
\* place_brick returned True
\* one iteration of the loop: ret becomes "placed"
place_queued(w) ==
    With(pop_and_place(w), LAMBDA next : [next EXCEPT !.ret = w.ret \/ next.ret])

place_queue(w, placed) ==
    FoldSeq(LAMBDA a, b : place_queued(a), w.current_stride_bricks,
            [w EXCEPT !.ret = placed])

\* "if placed: self.stride_optimizer._start_new_stride(); return True"
finish_stride(w) ==
    IF w.ret THEN [start_new_stride(w) EXCEPT !.ret = TRUE]
    ELSE [w EXCEPT !.ret = FALSE]

\* the lines after the "if not self.wall.current_stride_bricks:" block
place_stride_queue(w) ==
    IF ~w.ret THEN w
    ELSE finish_stride(place_queue([w EXCEPT !.h_drained = w.current_stride_bricks],
                                   FALSE))

place_all_bricks_in_stride(w) ==
    place_stride_queue(IF w.current_stride_bricks # <<>> THEN [w EXCEPT !.ret = TRUE]
                       ELSE IF ~has_unbuilt_bricks(w)
                       THEN [w EXCEPT !.message = <<"Wall is complete!">>, !.ret = FALSE]
                       ELSE refill(w))

\* ------------------------------------------------------------------------
\* main.py: the program.  wall is the Wall object the program holds, aborted
\* tells that an exception has ended the program, partial is the Wall object
\* whose construction raised it, and call is the operation that acted last.
\* ------------------------------------------------------------------------
VARIABLES wall, aborted, partial, call

vars == <<wall, aborted, partial, call>>

\* the wall Wall(WALL_WIDTH, WALL_HEIGHT, bond_type) returns
constructed(bond_type) ==
    IF bond_type = STRETCHER_BOND THEN StretcherWall ELSE WildWall

\* the message of lines 76-77 and 95-96 and the first stride of lines 61, 80
ready_wall(w) ==
    calculate_next_stride(
        [w EXCEPT !.message = ReadyMessage(w.bond_type, w.robot_position)])

\* main(): lines 50-61 and 93-96
Init ==
    /\ wall = ready_wall(constructed(STRETCHER_BOND))
    /\ aborted = FALSE
    /\ partial = <<>>
    /\ call = [op |-> "create_wall", args |-> <<STRETCHER_BOND>>]

\* ------------------------------------------------------------------------
\* the bounds of the exploration
\* ------------------------------------------------------------------------
\* Any MaxOps calls are made on one wall; beyond them
MaxOps == 2
\* a run of place_single_brick_from_stride alone has up to MaxOnes calls and
\* may be followed by MaxStrides calls of place_all_bricks_in_stride, and
MaxOnes == 18
MaxStrides == 1
\* a run of place_all_bricks_in_stride alone on a wall of a bond type in
\* RunBonds has up to MaxRun calls.
MaxRun == 32
RunBonds == {STRETCHER_BOND, WILD_BOND}

h_ops(w) == w.h_direct + w.h_ones + w.h_strides

\* only place_single_brick_from_stride has been called on the wall
one_run(w) == w.h_direct = 0 /\ w.h_strides = 0

\* only place_all_bricks_in_stride has been called on the wall
stride_run(w) == w.h_direct = 0 /\ w.h_ones = 0

\* the (course, position) arguments place_brick is called with: the four ways
\* out of range, bricks of courses 0, 1 and 5, and the head of the queue
place_brick_inputs(w) ==
    {<<0 - 1, 0>>, <<NUM_COURSES, 0>>, <<0, 0 - 1>>, <<0, CourseLen(w, 0)>>,
     <<0, 0>>, <<1, 0>>, <<5, 0>>}
    \cup (IF w.current_stride_bricks = <<>> THEN {} ELSE {Head(w.current_stride_bricks)})

\* ------------------------------------------------------------------------
\* the operations
\* ------------------------------------------------------------------------
\* reset_wall(new_bond_type), lines 64-80; an exception raised by Wall(...)
\* leaves reset_wall at line 68 and ends the program
Reset(new_bond_type) ==
    /\ ~aborted
    /\ call' = [op |-> "reset_wall", args |-> <<new_bond_type>>]
    /\ IF wall_init_raises(new_bond_type)
       THEN /\ aborted' = TRUE
            /\ partial' = EnglishCrossWall
            /\ wall' = wall
       ELSE /\ wall' = ready_wall(constructed(new_bond_type))
            /\ UNCHANGED <<aborted, partial>>

\* BrickPlacer.place_brick(course, position) called from outside
PlaceBrick(course, position) ==
    /\ ~aborted
    /\ h_ops(wall) < MaxOps
    /\ wall' = [place_brick(wall, course, position) EXCEPT !.h_direct = @ + 1]
    /\ call' = [op |-> "place_brick", args |-> <<course, position>>]
    /\ UNCHANGED <<aborted, partial>>

\* the RETURN key: brick_placer.place_single_brick_from_stride()
PlaceOne ==
    /\ ~aborted
    /\ \/ h_ops(wall) < MaxOps
       \/ one_run(wall) /\ wall.h_ones < MaxOnes
    /\ wall' = [place_single_brick_from_stride(wall) EXCEPT !.h_ones = @ + 1]
    /\ call' = [op |-> "place_one", args |-> <<>>]
    /\ UNCHANGED <<aborted, partial>>

\* the S key: brick_placer.place_all_bricks_in_stride()
PlaceStrideEnabled ==
    /\ ~aborted
    /\ \/ h_ops(wall) < MaxOps
       \/ wall.h_direct = 0 /\ wall.h_strides < MaxStrides
       \/ stride_run(wall) /\ wall.bond_type \in RunBonds /\ wall.h_strides < MaxRun

PlaceStride ==
    /\ PlaceStrideEnabled
    /\ wall' = [place_all_bricks_in_stride(wall) EXCEPT !.h_strides = @ + 1]
    /\ call' = [op |-> "place_stride", args |-> <<>>]
    /\ UNCHANGED <<aborted, partial>>

\* the end of a frame of the main loop, lines 135-137
CompletedMessage(w) == <<"Wall completed!", w.strides_used, w.total_movement_cost>>

FrameEnd ==
    /\ ~aborted
    /\ is_complete(wall)
    /\ wall.message # CompletedMessage(wall)
    /\ wall' = [wall EXCEPT !.message = CompletedMessage(wall)]
    /\ call' = [op |-> "frame_end", args |-> <<>>]
    /\ UNCHANGED <<aborted, partial>>

Next ==
    \/ \E new_bond_type \in BondTypes : Reset(new_bond_type)
    \/ \E input \in place_brick_inputs(wall) : PlaceBrick(input[1], input[2])
    \/ PlaceOne
    \/ PlaceStride
    \/ FrameEnd

Spec == Init /\ [][Next]_vars

\* a step of Next is a PlaceStride step exactly when it leaves place_stride as
\* the operation that acted last and counts one more call of it
PlaceStrideStep ==
    /\ call'.op = "place_stride"
    /\ wall'.h_strides = wall.h_strides + 1

\* The runs of C2: the caller goes on calling place_all_bricks_in_stride.
\* This is WF_vars(PlaceStride) written out for the steps of Next: a
\* PlaceStride step always changes wall.h_strides, so ENABLED <<PlaceStride>>_vars
\* is PlaceStrideEnabled.
FairSpec == Spec /\ ([]<>~PlaceStrideEnabled \/ []<><<PlaceStrideStep>>_vars)

\* ------------------------------------------------------------------------
\* Properties
\* ------------------------------------------------------------------------
\* the (course, position) pairs of the wall
AllBricks(w) ==
    UNION {{<<c, p>> : p \in 0..(CourseLen(w, c) - 1)} : c \in 0..(NUM_COURSES - 1)}

BuiltBricks(w) == {b \in AllBricks(w) : IsBuilt(w, b[1], b[2])}

\* the length over which the span of brick (c, p) lies on built bricks of
\* course c - 1: the sum of the positive intersections
RestsOn(w, c, p) ==
    SumOver({q \in 1..CourseLen(w, c - 1) : IsBuilt(w, c - 1, q - 1)},
            LAMBDA q :
                Max(0, Min(PositionOf(w, c, p).x + PositionOf(w, c, p).length,
                           PositionOf(w, c - 1, q - 1).x + PositionOf(w, c - 1, q - 1).length)
                       - Max(PositionOf(w, c, p).x, PositionOf(w, c - 1, q - 1).x)))

\* support ratio >= 0.9, the ratio being RestsOn / length
WellSupported(w, c, p) == 10 * RestsOn(w, c, p) >= 9 * PositionOf(w, c, p).length

\* C1: in every reachable state every built brick of a course above 0 has a
\* support ratio of at least 0.9 against the built bricks of the course below.
C1_BuiltBricksSupported ==
    \A b \in BuiltBricks(wall) : b[1] > 0 => WellSupported(wall, b[1], b[2])

\* a place_stride call has built bricks above course 0
C1_Witness ==
    /\ call.op = "place_stride"
    /\ \E b \in BuiltBricks(wall) : b[1] > 0

\* the width a course takes: the brick lengths and the head joints between them
RowWidth(row) ==
    SumOver(1..Len(row), LAMBDA i : row[i][1]) + (Len(row) - 1) * mm(HEAD_JOINT)

GridFits(grid) ==
    /\ Len(grid) = NUM_COURSES
    /\ \A c \in 1..NUM_COURSES : RowWidth(grid[c]) = mm(WALL_WIDTH)

\* C4: every course of the generated wall of each bond type is WALL_WIDTH wide:
\* the brick lengths plus (number of bricks - 1) head joints.  The stretcher
\* and wild grids are those of the walls the program holds, the English Cross
\* grid is the one Wall.__init__ had generated when it raised.
C4_CoursesFillWidth ==
    /\ GridFits(wall.grid)
    /\ aborted => GridFits(partial.grid)

\* the grids of a wild wall and of the English Cross wall are both at hand
C4_Witness ==
    /\ aborted
    /\ partial.bond_type = ENGLISH_CROSS_BOND
    /\ wall.bond_type = WILD_BOND
    /\ call.op = "reset_wall"

\* C5: constructing a wall completes normally for each
\* bond type, so no create_wall or reset_wall ends the program, and the wall
\* it leaves is the wall asked for with its fields initialised.
C5_ConstructionCompletes ==
    call.op \in {"create_wall", "reset_wall"} =>
        /\ ~aborted
        /\ wall.bond_type = call.args[1]
        /\ Len(wall.grid) = NUM_COURSES
        /\ Len(wall.brick_positions) = NUM_COURSES
        /\ wall.placed_bricks = 0
        /\ wall.robot_position \in (0..mm(WALL_WIDTH)) \X {0}

\* C6: placed_bricks is the number of built bricks in every reachable state;
\* it never exceeds total_bricks, and no operation on a wall lowers it (a
\* reset_wall replaces the wall).
C6_PlacedCountsBuilt ==
    /\ [](/\ wall.placed_bricks = Cardinality(BuiltBricks(wall))
          /\ wall.placed_bricks <= wall.total_bricks)
    /\ [][call'.op # "reset_wall" => wall'.placed_bricks >= wall.placed_bricks]_vars

\* bricks have been counted by place_brick, place_one and place_stride calls
C6_Witness ==
    /\ wall.placed_bricks > 16
    /\ wall.h_direct > 0
    /\ wall.h_strides > 0

\* the wall reset_wall(bond_type) is to leave
FreshWall(w, bond_type) ==
    /\ w.bond_type = bond_type
    /\ BuiltBricks(w) = {}
    /\ w.placed_bricks = 0
    /\ w.strides_used = 0
    /\ w.total_movement_cost = 0
    /\ DOMAIN w.stride_map = {}
    /\ w.robot_position[1] \in 0..mm(WALL_WIDTH)
    /\ w.robot_position[2] = 0
    /\ w.current_stride_bricks # <<>>
    /\ \A b \in Range(w.current_stride_bricks) : b \in AllBricks(w)

\* C10: after reset_wall(bond_type), for every bond
\* type, the program holds a fresh wall of that bond type: nothing built, the
\* counters at 0, the stride map empty, the robot on y = 0 with x within
\* [0, WALL_WIDTH], and a first queue computed.
C10_ResetGivesFreshWall ==
    call.op = "reset_wall" => ~aborted /\ FreshWall(wall, call.args[1])

\* the rounds of calculate_next_stride that have a committed placement
RoundsPlaced(w) == {w.h_round_of[b] : b \in DOMAIN w.h_round_of}

\* C3: over place_one and place_stride calls strides_used counts the planning
\* rounds that have a committed placement: a call raises it by 1 when it
\* commits the first placement of a round and by 0 otherwise, so a round
\* without a committed placement never raises it.
C3_StridesCountRounds ==
    /\ [](wall.h_direct = 0 => wall.strides_used = Cardinality(RoundsPlaced(wall)))
    /\ [][(wall.h_direct = 0 /\ call'.op \in {"place_one", "place_stride"}) =>
            /\ wall'.strides_used - wall.strides_used
                 = Cardinality(RoundsPlaced(wall') \ RoundsPlaced(wall))
            /\ wall'.strides_used - wall.strides_used \in {0, 1}]_vars

\* place_one has gone through a whole queue and has begun the next round
C3_Witness ==
    /\ call.op = "place_one"
    /\ wall.h_direct = 0
    /\ wall.h_strides = 0
    /\ wall.strides_used = 2
    /\ wall.placed_bricks > 2

\* place_brick(c, p) is to fail: an index out of range, the brick built, or
\* the brick above course 0 and not supported
Rejected(w, c, p) ==
    IF c \notin 0..(NUM_COURSES - 1) THEN TRUE
    ELSE IF p \notin 0..(CourseLen(w, c) - 1) THEN TRUE
    ELSE IF IsBuilt(w, c, p) THEN TRUE
    ELSE c > 0 /\ ~WellSupported(w, c, p)

\* w1 is w2 in every field of the wall (ret and the count of calls aside)
SameWall(w1, w2) == [w1 EXCEPT !.ret = w2.ret, !.h_direct = w2.h_direct] = w2

\* C7: place_brick(course, position) returns False and changes nothing of the
\* wall when an index is out of range, the brick is built already, or the
\* brick is above course 0 and unsupported; a second place_brick on the same
\* coordinates returns False and changes nothing.
C7_RejectedPlaceBrick ==
    [][call'.op = "place_brick" =>
         /\ Rejected(wall, call'.args[1], call'.args[2])
                => ~wall'.ret /\ SameWall(wall', wall)
         /\ (call.op = "place_brick" /\ call.args = call'.args)
                => ~wall'.ret /\ SameWall(wall', wall)]_vars

\* the second of two place_brick(0, 0) calls, the first of which built the brick
C7_Witness ==
    /\ call = [op |-> "place_brick", args |-> <<0, 0>>]
    /\ wall.h_direct = 2
    /\ IsBuilt(wall, 0, 0)
    /\ ~wall.ret

\* (x + length / 2, y + height / 2)
CentreOf(w, b) ==
    <<PositionOf(w, b[1], b[2]).x + PositionOf(w, b[1], b[2]).length \div 2,
      PositionOf(w, b[1], b[2]).y + PositionOf(w, b[1], b[2]).height \div 2>>

\* 1.5 * |dx| + 1.0 * |dy|, in eighths of a millimetre for dx and dy in quarters
MoveCost(a, b) == 3 * Abs(b[1] - a[1]) + 2 * Abs(b[2] - a[2])

\* C8: a successful place_brick(c, p) marks exactly brick (c, p) built, raises
\* placed_bricks by 1, records the current stride id for (c, p), adds
\* 1.5 |dx| + 1.0 |dy| from the robot's position to the brick's centre to the
\* total movement cost, and moves the robot to that centre.
C8_PlaceBrickEffect ==
    [][(call'.op = "place_brick" /\ wall'.ret) =>
         /\ call'.args \in AllBricks(wall) \ BuiltBricks(wall)
         /\ wall'.grid = [wall.grid EXCEPT ![call'.args[1] + 1][call'.args[2] + 1][2] = 1]
         /\ wall'.placed_bricks = wall.placed_bricks + 1
         /\ DOMAIN wall'.stride_map = DOMAIN wall.stride_map \cup {call'.args}
         /\ wall'.stride_map[call'.args] = wall.current_stride
         /\ \A b \in DOMAIN wall.stride_map : wall'.stride_map[b] = wall.stride_map[b]
         /\ wall'.total_movement_cost
              = wall.total_movement_cost
                + MoveCost(wall.robot_position, CentreOf(wall, call'.args))
         /\ wall'.robot_position = CentreOf(wall, call'.args)]_vars

\* place_brick(1, 0) has succeeded: a brick of course 1, reached by moving in
\* both directions
C8_Witness ==
    /\ call = [op |-> "place_brick", args |-> <<1, 0>>]
    /\ wall.ret
    /\ IsBuilt(wall, 1, 0)

\* the cost of visiting the centres of the bricks of seq in order from `from`
PathCost(w, from, seq) ==
    SumOver(1..Len(seq),
            LAMBDA i : MoveCost(IF i = 1 THEN from ELSE CentreOf(w, seq[i - 1]),
                                CentreOf(w, seq[i])))

\* C9: place_stride goes through the whole queue in queue order, so every
\* queued brick is built afterwards and the robot has visited the committed
\* bricks in queue order; it returns True exactly when it committed a brick,
\* and then it has raised current_stride by exactly 1, cleared the active
\* flag and asked the optimizer for the next round.
C9_PlaceStrideDrains ==
    [][call'.op = "place_stride" =>
         LET entered == wall.current_stride_bricks # <<>>
                        \/ wall'.placed_bricks > wall.placed_bricks
             queue == IF wall.current_stride_bricks # <<>>
                      THEN wall.current_stride_bricks ELSE wall'.h_drained
             committed == SelectSeq(queue, LAMBDA b : b \notin BuiltBricks(wall))
         IN  /\ wall'.ret <=> wall'.placed_bricks > wall.placed_bricks
             /\ entered =>
                  /\ wall'.h_drained = queue
                  /\ \A b \in Range(queue) : b \in BuiltBricks(wall')
                  /\ BuiltBricks(wall') = BuiltBricks(wall) \cup Range(queue)
                  /\ wall'.total_movement_cost
                       = wall.total_movement_cost
                         + PathCost(wall, wall.robot_position, committed)
                  /\ committed # <<>>
                       => wall'.robot_position = CentreOf(wall, committed[Len(committed)])
             /\ wall'.ret =>
                  /\ wall'.current_stride = wall.current_stride + 1
                  /\ ~wall'.current_stride_active
                  /\ ~is_complete(wall') =>
                       /\ wall'.h_round > wall.h_round
                       /\ wall'.stride_needs_counting
                       /\ wall'.new_stride_started
                       /\ wall'.current_stride_bricks # <<>>
             /\ ~wall'.ret => wall'.current_stride = wall.current_stride]_vars

\* place_stride has gone through a queue part of which place_one had placed
C9_Witness ==
    /\ call.op = "place_stride"
    /\ wall.ret
    /\ wall.h_ones > 0
    /\ wall.h_direct = 0
    /\ Len(wall.h_drained) > 1

\* place_stride alone has been called on a stretcher wall since its construction
StretcherRun == wall.bond_type = STRETCHER_BOND /\ stride_run(wall)

\* C2: on the stretcher wall, calling place_stride again and again from the
\* fresh wall ends with the wall complete within total_bricks calls: every
\* call on the incomplete wall commits a brick, so the calls made never
\* outnumber the bricks placed, and the run reaches placed_bricks =
\* total_bricks.
C2_StrideRunCompletes ==
    /\ [](StretcherRun =>
            /\ wall.placed_bricks <= wall.total_bricks
            /\ ~is_complete(wall) => wall.h_strides <= wall.placed_bricks)
    /\ [][(StretcherRun /\ ~is_complete(wall) /\ call'.op = "place_stride") =>
            wall'.ret /\ wall'.placed_bricks > wall.placed_bricks]_vars
    /\ []<>(~StretcherRun \/ call.op # "place_stride"
            \/ wall.placed_bricks = wall.total_bricks)

\* the run has completed the wall
C2_Witness ==
    /\ StretcherRun
    /\ call.op = "place_stride"
    /\ wall.placed_bricks = wall.total_bricks
    /\ wall.h_strides <= wall.total_bricks
    /\ wall.ret

\* C11: is_supported(c, p) is True for every brick of course 0; above course 0
\* it is True exactly when the part of the brick's span [x, x + length] that
\* lies on built bricks of course c - 1 is at least 0.9 of the brick's length,
\* a ratio of exactly 0.9 included, whatever the orientation of the brick.
C11_SupportRule ==
    \A b \in AllBricks(wall) :
        is_supported(wall, b[1], b[2]) <=> (b[1] = 0 \/ WellSupported(wall, b[1], b[2]))

\* brick (c, p) rests on exactly 0.9 of its length
ExactlyAtThreshold(w, c, p) == 10 * RestsOn(w, c, p) = 9 * PositionOf(w, c, p).length

\* a built header rests on exactly 0.9 of its length, a stretcher on no less,
\* and some brick rests on a part of its length that is too short
C11_Witness ==
    /\ \E b \in BuiltBricks(wall) :
          /\ b[1] > 0
          /\ PositionOf(wall, b[1], b[2]).orientation = "header"
          /\ ExactlyAtThreshold(wall, b[1], b[2])
          /\ is_supported(wall, b[1], b[2])
    /\ \E b \in BuiltBricks(wall) :
          /\ b[1] > 0
          /\ PositionOf(wall, b[1], b[2]).orientation = "stretcher"
          /\ is_supported(wall, b[1], b[2])
    /\ \E b \in AllBricks(wall) :
          /\ b[1] > 0
          /\ RestsOn(wall, b[1], b[2]) > 0
          /\ ~is_supported(wall, b[1], b[2])

\* the wall w with every brick of S built as well
WithBuilt(w, S) ==
    [w EXCEPT !.grid = [c \in DOMAIN w.grid |->
                          [p \in DOMAIN w.grid[c] |->
                             IF <<c - 1, p - 1>> \in S
                             THEN <<w.grid[c][p][1], 1, w.grid[c][p][3]>>
                             ELSE w.grid[c][p]]]]

\* sets of (course, position) pairs: none, the bricks at even positions, the
\* bricks of the queue, both together, and every brick of the wall
HypotheticalSets(w) ==
    {{}, {b \in AllBricks(w) : b[2] % 2 = 0},
     Range(w.current_stride_bricks),
     {b \in AllBricks(w) : b[2] % 2 = 0} \cup Range(w.current_stride_bricks),
     AllBricks(w)}

\* C12: would_be_supported(c, p, S) is what is_supported(c, p) gives on the
\* wall that has the bricks of S built as well; with S empty the two agree on
\* every brick, and a larger S never turns True into False.
C12_WouldBeSupported ==
    /\ \A S \in HypotheticalSets(wall) : \A wb \in {WithBuilt(wall, S)} :
          \A b \in AllBricks(wall) :
              would_be_supported(wall, b[1], b[2], S) <=> is_supported(wb, b[1], b[2])
    /\ \A b \in AllBricks(wall) :
          would_be_supported(wall, b[1], b[2], {}) <=> is_supported(wall, b[1], b[2])
    /\ \A S, T \in HypotheticalSets(wall) :
          S \subseteq T =>
             \A b \in AllBricks(wall) :
                 would_be_supported(wall, b[1], b[2], S)
                    => would_be_supported(wall, b[1], b[2], T)

\* place_one is part way through a queue, and a brick that the built bricks do
\* not support would be supported with the bricks of the queue
C12_Witness ==
    /\ call.op = "place_one"
    /\ wall.current_stride_bricks # <<>>
    /\ \E b \in AllBricks(wall) :
          /\ ~is_supported(wall, b[1], b[2])
          /\ would_be_supported(wall, b[1], b[2], Range(wall.current_stride_bricks))

\* C13: on a wall without a built brick place_brick(c, p) returns False for
\* every course c >= 1 and every position p, place_brick(5, 0) among them, and
\* placed_bricks stays 0.
C13_FreshWallRefusesUpperCourses ==
    /\ [](BuiltBricks(wall) = {} =>
            \A b \in AllBricks(wall) :
                b[1] >= 1 =>
                   \A after \in {place_brick(wall, b[1], b[2])} :
                       /\ ~after.ret
                       /\ after.placed_bricks = 0
                       /\ after.grid = wall.grid)
    /\ [][(BuiltBricks(wall) = {} /\ call'.op = "place_brick" /\ call'.args[1] >= 1) =>
            /\ ~wall'.ret
            /\ wall'.placed_bricks = 0
            /\ BuiltBricks(wall') = {}]_vars

\* place_brick(5, 0) has been called on the fresh wall and has returned False
C13_Witness ==
    /\ call = [op |-> "place_brick", args |-> <<5, 0>>]
    /\ wall.h_direct = 1
    /\ wall.h_ones = 0
    /\ wall.h_strides = 0
    /\ ~wall.ret
    /\ wall.placed_bricks = 0

\* the unbuilt bricks that place_brick would accept
PlaceableBricks(w) ==
    {b \in AllBricks(w) \ BuiltBricks(w) : b[1] = 0 \/ WellSupported(w, b[1], b[2])}

\* C14 is about a call made with the queue empty, unbuilt bricks left and no
\* brick placeable.  No wall the program constructs gets there: while a brick
\* is unbuilt some brick is placeable, and the message never tells of a stall.
C14_StallNeverArises ==
    /\ has_unbuilt_bricks(wall) => PlaceableBricks(wall) # {}
    /\ wall.message # <<"No more bricks can be placed!">>

\* every brick of the row has the orientation
AllOf(row, orientation) == \A i \in DOMAIN row : row[i][3] = orientation

\* The courses of an English Cross grid: types 0 and 2 are stretchers and
\* begin with a full brick (offset 0) and a brick of the half length; types 1
\* and 3 are headers and begin with a brick of a quarter of the length and a
\* brick of third_offset.
EnglishCrossShape(grid, third_offset) ==
    \A course \in 0..(NUM_COURSES - 1) :
        /\ course % 4 = 0 => /\ AllOf(grid[course + 1], "stretcher")
                             /\ grid[course + 1][1][1] = mm(FULL_BRICK_LENGTH)
        /\ course % 4 = 1 => /\ AllOf(grid[course + 1], "header")
                             /\ 4 * grid[course + 1][1][1] = mm(FULL_BRICK_LENGTH)
        /\ course % 4 = 2 => /\ AllOf(grid[course + 1], "stretcher")
                             /\ 2 * grid[course + 1][1][1] = mm(FULL_BRICK_LENGTH)
        /\ course % 4 = 3 => /\ AllOf(grid[course + 1], "header")
                             /\ grid[course + 1][1][1] = third_offset

\* C15: in the English Cross grid the courses of type 0 and 2 hold stretchers
\* only and start at offsets 0 and half a brick (105 mm), the courses of type
\* 1 and 3 hold headers only and start with a quarter brick (52.5 mm) and a
\* three-quarter brick (157.5 mm).
C15_EnglishCrossCourses ==
    partial # <<>> => EnglishCrossShape(partial.grid, (3 * mm(FULL_BRICK_LENGTH)) \div 4)

\* what the generator does: the courses of type 3 start with a quarter brick
EnglishCrossAsBuilt ==
    partial # <<>> => EnglishCrossShape(partial.grid, mm(FULL_BRICK_LENGTH) \div 4)

\* the row has k bricks of the orientation in a row
HasRun(row, orientation, k) ==
    \E i \in 1..(Len(row) - k + 1) : \A j \in i..(i + k - 1) : row[j][3] = orientation

\* C16: no course of the wild wall has more than 3 headers in a row or more
\* than 5 stretchers in a row, the left-edge brick and the closing brick
\* counted like every other brick.
C16_WildRuns ==
    wall.bond_type = WILD_BOND =>
        \A c \in DOMAIN wall.grid :
            /\ ~HasRun(wall.grid[c], "header", 4)
            /\ ~HasRun(wall.grid[c], "stretcher", 6)

\* what the generator keeps to: at most 3 headers in a row, and at most 5
\* stretchers in a row between the left-edge brick and the closing brick
WildRunsAsBuilt ==
    wall.bond_type = WILD_BOND =>
        \A c \in DOMAIN wall.grid :
            /\ ~HasRun(wall.grid[c], "header", 4)
            /\ ~HasRun(wall.grid[c], "stretcher", 7)
            /\ ~HasRun(SubSeq(wall.grid[c], IF (c - 1) % 4 = 0 THEN 1 ELSE 2,
                              Len(wall.grid[c]) - 1), "stretcher", 6)

\* the end position of brick (c, p)
EndOf(w, c, p) == PositionOf(w, c, p).x + PositionOf(w, c, p).length

\* two brick ends within a quarter brick of each other
Aligned(e1, e2) == Abs(e1 - e2) < quarter_brick

\* Below course c there is a chain of brick ends through k consecutive
\* courses, each end aligned with the next, whose topmost end (in course
\* c - 1) is aligned with the position e.
RECURSIVE ChainBelow(_, _, _, _)
ChainBelow(w, c, e, k) ==
    IF k = 0 THEN TRUE
    ELSE IF c = 0 THEN FALSE
    ELSE \E q \in 0..(CourseLen(w, c - 1) - 1) :
            /\ Aligned(EndOf(w, c - 1, q), e)
            /\ ChainBelow(w, c - 1, EndOf(w, c - 1, q), k - 1)

\* the length of the chains that count as falling teeth
TeethLength == 5

\* C17 as stated: in the wild wall no brick ends within a quarter brick of the
\* topmost end of a chain of aligned brick ends through 5 or more consecutive
\* courses directly below it.
C17_NoBrickExtendsTeeth ==
    wall.bond_type = WILD_BOND =>
        \A b \in AllBricks(wall) :
            ~ChainBelow(wall, b[1], EndOf(wall, b[1], b[2]), TeethLength)

\* C17, amended: in the wild wall no brick other than the last brick of its
\* course ends within a quarter brick of the topmost end of a chain of
\* aligned brick ends through 5 or more consecutive courses directly below
\* it.  The last brick of every course ends at the right edge of the wall.
C17_NoInteriorBrickExtendsTeeth ==
    wall.bond_type = WILD_BOND =>
        \A b \in AllBricks(wall) :
            b[2] < CourseLen(wall, b[1]) - 1 =>
                ~ChainBelow(wall, b[1], EndOf(wall, b[1], b[2]), TeethLength)

\* the wild wall has been generated; brick ends inside the wall are aligned
\* with ends of the course below, and the last bricks extend the chain of
\* the right edge
C17_Witness ==
    /\ wall.bond_type = WILD_BOND
    /\ call.op = "reset_wall"
    /\ \E b \in AllBricks(wall) :
          /\ b[2] < CourseLen(wall, b[1]) - 1
          /\ ChainBelow(wall, b[1], EndOf(wall, b[1], b[2]), 1)
    /\ \E b \in AllBricks(wall) :
          /\ b[2] = CourseLen(wall, b[1]) - 1
          /\ ChainBelow(wall, b[1], EndOf(wall, b[1], b[2]), TeethLength)

\* C18: in the stretcher wall every even course, course 0 included, starts
\* with a full stretcher of 210 mm and every odd course, course 1 included,
\* with a half stretcher of 100 mm; every brick of the wall is a stretcher.
C18_StretcherCourses ==
    wall.bond_type = STRETCHER_BOND =>
        \A course \in 0..(NUM_COURSES - 1) :
            /\ AllOf(wall.grid[course + 1], "stretcher")
            /\ course % 2 = 0 => wall.grid[course + 1][1][1] = mm(FULL_BRICK_LENGTH)
            /\ course % 2 = 1 => wall.grid[course + 1][1][1] = mm(HALF_BRICK_LENGTH)

\* reset_wall(STRETCHER_BOND) has generated the stretcher wall with its
\* courses 0 and 1
C18_Witness ==
    /\ call = [op |-> "reset_wall", args |-> <<STRETCHER_BOND>>]
    /\ wall.bond_type = STRETCHER_BOND
    /\ wall.grid[1][1] = <<mm(FULL_BRICK_LENGTH), 0, "stretcher">>
    /\ wall.grid[2][1] = <<mm(HALF_BRICK_LENGTH), 0, "stretcher">>

\* the length over which brick (c, p) lies on the bricks of course c - 1 that
\* are built or in S
RestsOnWith(w, c, p, S) ==
    SumOver({q \in 1..CourseLen(w, c - 1) :
                IsBuilt(w, c - 1, q - 1) \/ <<c - 1, q - 1>> \in S},
            LAMBDA q :
                Max(0, Min(PositionOf(w, c, p).x + PositionOf(w, c, p).length,
                           PositionOf(w, c - 1, q - 1).x + PositionOf(w, c - 1, q - 1).length)
                       - Max(PositionOf(w, c, p).x, PositionOf(w, c - 1, q - 1).x)))

\* the courses of the queue never decrease
CourseOrdered(queue) ==
    \A i, j \in DOMAIN queue : i < j => queue[i][1] <= queue[j][1]

\* every brick of the queue above course 0 has a support ratio of at least
\* 0.9 against the built bricks and the bricks before it in the queue
SupportedInTurn(w, queue) ==
    \A i \in DOMAIN queue :
        queue[i][1] > 0 =>
            10 * RestsOnWith(w, queue[i][1], queue[i][2], {queue[k] : k \in 1..(i - 1)})
                >= 9 * PositionOf(w, queue[i][1], queue[i][2]).length

\* C19: the queue of a stride has its bricks in non-decreasing course order,
\* and each of its bricks above course 0 is supported by the bricks that are
\* built or that come before it in the queue; so, on a wall that place_brick
\* has not been called on from outside, draining the queue in order places
\* every brick of it: no place_brick of the drain is refused.
C19_QueueDrainsWithoutRefusal ==
    /\ [](/\ CourseOrdered(wall.current_stride_bricks)
          /\ SupportedInTurn(wall, wall.current_stride_bricks)
          /\ wall.h_direct = 0 =>
                \A after \in {place_queue(wall, FALSE)} :
                    /\ after.placed_bricks
                         = wall.placed_bricks + Len(wall.current_stride_bricks)
                    /\ after.current_stride_bricks = <<>>
                    /\ Range(wall.current_stride_bricks) \subseteq BuiltBricks(after))
    /\ [][/\ (call'.op = "place_stride" /\ wall.h_direct = 0 /\ wall'.ret) =>
                wall'.placed_bricks = wall.placed_bricks + Len(wall'.h_drained)
          /\ (call'.op = "place_one" /\ wall.h_direct = 0
                /\ wall.current_stride_bricks # <<>>) =>
                /\ wall'.ret
                /\ wall'.placed_bricks = wall.placed_bricks + 1]_vars

\* place_all_bricks_in_stride has drained a queue of at least two courses,
\* placing every brick of it, and the next queue holds a brick that only the
\* bricks before it in the queue support
C19_Witness ==
    /\ call.op = "place_stride"
    /\ wall.h_direct = 0
    /\ wall.ret
    /\ \E i \in DOMAIN wall.h_drained : wall.h_drained[i][1] > wall.h_drained[1][1]
    /\ Range(wall.h_drained) \subseteq BuiltBricks(wall)
    /\ \E i \in DOMAIN wall.current_stride_bricks :
          /\ wall.current_stride_bricks[i][1] > 0
          /\ ~is_supported(wall, wall.current_stride_bricks[i][1],
                           wall.current_stride_bricks[i][2])

\* the unbuilt bricks that lie entirely inside the footprint at (stride_x, stride_y)
UnbuiltInFootprint(w, stride_x, stride_y) ==
    {b \in AllBricks(w) : /\ ~IsBuilt(w, b[1], b[2])
                          /\ brick_in_stride(w, b[1], b[2], stride_x, stride_y)}

\* footprint origins on and off the grid of the search, in millimetres: the
\* corners and the middle of the range of origins, and origins between two
\* steps of the grid
FootprintOrigins ==
    {<<x, y>> : x \in {0, 650, 1500}, y \in {0, 300, 700}}
    \cup {<<435, 0>>, <<1105, 125>>}

\* the closure with as many passes as the wall has courses
placeable_uncapped(w, stride_x, stride_y) ==
    With(unbuilt_among(w, bricks_in_stride(w.brick_positions, stride_x, stride_y)),
         LAMBDA unbuilt :
             closure_passes(w, unbuilt,
                 [placeable |-> unbuilt[1], added |-> Range(unbuilt[1])],
                 NUM_COURSES).placeable)

\* C20: for a footprint origin, the placeable set of the closure holds only
\* unbuilt bricks lying entirely inside the footprint, holds every such brick
\* of course 0, and holds an unbuilt footprint brick above course 0 exactly
\* when that brick has a support ratio of at least 0.9 against the built
\* bricks and the set's bricks of the course below; with more than 5 passes
\* allowed the closure returns the same list.
C20_ClosureFixedPoint ==
    \A origin \in FootprintOrigins :
        \A placeable \in {get_all_placeable_bricks_in_stride(wall, mm(origin[1]),
                                                             mm(origin[2]))} :
            \A footprint \in {UnbuiltInFootprint(wall, mm(origin[1]), mm(origin[2]))} :
                /\ Range(placeable) \subseteq footprint
                /\ Cardinality(Range(placeable)) = Len(placeable)
                /\ \A b \in footprint :
                      IF b[1] = 0 THEN b \in Range(placeable)
                      ELSE b \in Range(placeable)
                             <=> 10 * RestsOnWith(wall, b[1], b[2], Range(placeable))
                                   >= 9 * PositionOf(wall, b[1], b[2]).length
                /\ placeable = placeable_uncapped(wall, mm(origin[1]), mm(origin[2]))

\* on a wall with built bricks a footprint holds a brick of the set that only
\* the set's own bricks support, and an unbuilt brick that is left out
C20_Witness ==
    /\ wall.placed_bricks > 0
    /\ \E origin \in FootprintOrigins :
          \E placeable \in {Range(get_all_placeable_bricks_in_stride(
                                      wall, mm(origin[1]), mm(origin[2])))} :
              /\ \E b \in placeable : b[1] > 0 /\ ~is_supported(wall, b[1], b[2])
              /\ \E b \in placeable : b[1] > 0 /\ is_supported(wall, b[1], b[2])
              /\ UnbuiltInFootprint(wall, mm(origin[1]), mm(origin[2])) \ placeable # {}

\* the wall as a planning round after the first has just left it: the round
\* closing place_all_bricks_in_stride planned on the wall of this state
PlannedByRound(w) ==
    /\ call.op = "place_stride"
    /\ w.ret
    /\ w.placed_bricks > 0
    /\ has_unbuilt_bricks(w)

\* the origins the claim names, in millimetres
GridOrigins ==
    {<<100 * i, 100 * j>> : i \in 0..((WALL_WIDTH - STRIDE_WIDTH) \div 100),
                            j \in 0..((WALL_HEIGHT - STRIDE_HEIGHT) \div 100)}

\* C21: the queue of a planning round after the first has as many bricks as
\* the largest placeable set over the grid origins (multiples of 100 mm up to
\* WALL_WIDTH - STRIDE_WIDTH and WALL_HEIGHT - STRIDE_HEIGHT), and it is the
\* set of an origin of that size which has a strictly higher score than every
\* such origin scanned before it and which no such origin scanned after it
\* beats with a strictly higher score.
C21_QueueIsLargestPlaceableSet ==
    /\ Range(stride_positions) = GridOrigins
    /\ PlannedByRound(wall) =>
         \A cands \in {[i \in DOMAIN stride_positions |-> stride_candidate(wall, i)]} :
             \A most \in {CHOOSE n \in {cands[i].count : i \in DOMAIN cands} :
                             \A i \in DOMAIN cands : cands[i].count <= n} :
                 most > 0 =>
                     /\ Len(wall.current_stride_bricks) = most
                     /\ \E k \in DOMAIN cands :
                           /\ cands[k].count = most
                           /\ Range(cands[k].bricks) = Range(wall.current_stride_bricks)
                           /\ \A j \in DOMAIN cands :
                                 cands[j].count = most =>
                                     /\ j < k => score_greater(cands[k].score, cands[j].score)
                                     /\ j > k => ~score_greater(cands[j].score, cands[k].score)

\* a round after the first has chosen among several origins of the largest
\* size, with origins of smaller sets scoring higher than the chosen one
C21_Witness ==
    /\ PlannedByRound(wall)
    /\ wall.current_stride_bricks # <<>>
    /\ \A cands \in {[i \in DOMAIN stride_positions |-> stride_candidate(wall, i)]} :
          /\ Cardinality({i \in DOMAIN cands :
                             cands[i].count = Len(wall.current_stride_bricks)}) > 1
          /\ \E i \in DOMAIN cands :
                /\ cands[i].count > 0
                /\ cands[i].count < Len(wall.current_stride_bricks)

\* the queue _find_any_placeable_bricks leaves when it is called as
\* calculate_next_stride calls it, after a search that found nothing
FallbackQueue(w) ==
    find_any_placeable_bricks([w EXCEPT !.current_stride_bricks = <<>>]).current_stride_bricks

\* the walls calculate_next_stride is called on by the two placing operations:
\* the queue is empty
RoundDue(w) == w.current_stride_bricks = <<>>

\* the wall as calculate_next_stride has just left it: main() and reset_wall
\* call it on the new wall, and place_all_bricks_in_stride calls it through
\* _start_new_stride after the last brick of the queue
RoundDone(w) ==
    /\ ~aborted
    /\ \/ call.op \in {"create_wall", "reset_wall"}
       \/ call.op = "place_stride" /\ w.ret

\* C22: calculate_next_stride returns True and leaves a non-empty queue
\* whenever some unbuilt brick is on course 0 or supported by built bricks;
\* it returns False only when the wall is complete or there is no such brick;
\* and the fallback scan, called after a search that found nothing, supplies
\* exactly the unbuilt bricks that are on course 0 or supported, each once.
C22_NextStrideFindsPlaceable ==
    /\ RoundDue(wall) =>
          \A next \in {calculate_next_stride(wall)} :
              /\ PlaceableBricks(wall) # {} =>
                    next.ret /\ next.current_stride_bricks # <<>>
              /\ ~next.ret => is_complete(wall) \/ PlaceableBricks(wall) = {}
              /\ next.ret => next.current_stride_bricks # <<>>
    /\ RoundDone(wall) =>
          /\ PlaceableBricks(wall) # {} => wall.current_stride_bricks # <<>>
          /\ wall.current_stride_bricks = <<>> => is_complete(wall)
    /\ \A fallback \in {FallbackQueue(wall)} :
          /\ Range(fallback) = PlaceableBricks(wall)
          /\ Cardinality(Range(fallback)) = Len(fallback)

\* on a wall with built bricks whose queue place_single_brick_from_stride has
\* drained a round gives a queue, and the fallback scan would give bricks the
\* round leaves out
C22_Witness ==
    /\ wall.placed_bricks > 0
    /\ call.op = "place_one"
    /\ RoundDue(wall)
    /\ PlaceableBricks(wall) # {}
    /\ \A next \in {calculate_next_stride(wall)} :
          /\ next.ret
          /\ next.current_stride_bricks # <<>>
          /\ Range(FallbackQueue(wall)) \ Range(next.current_stride_bricks) # {}

\* C23: on a wall that only place_single_brick_from_stride and
\* place_all_bricks_in_stride have placed bricks on, two bricks placed from
\* the queues of different planning rounds never have the same stride id in
\* stride_map.
C23_RoundsHaveOwnStrideIds ==
    wall.h_direct = 0 =>
        \A a, b \in DOMAIN wall.stride_map :
            wall.h_round_of[a] # wall.h_round_of[b] =>
                wall.stride_map[a] # wall.stride_map[b]

MaxOf(S) == CHOOSE m \in S : \A n \in S : m >= n

\* the smallest axis-aligned rectangle around the bricks of a queue
BoundingBox(w, queue) ==
    [left |-> MinOf({PositionOf(w, b[1], b[2]).x : b \in Range(queue)}),
     right |-> MaxOf({PositionOf(w, b[1], b[2]).x + PositionOf(w, b[1], b[2]).length
                        : b \in Range(queue)}),
     bottom |-> MinOf({PositionOf(w, b[1], b[2]).y : b \in Range(queue)}),
     top |-> MaxOf({PositionOf(w, b[1], b[2]).y + PositionOf(w, b[1], b[2]).height
                      : b \in Range(queue)})]

\* C24: the bricks of the queue all lie inside one footprint of STRIDE_WIDTH
\* by STRIDE_HEIGHT that is inside the wall: the rectangle around them is
\* inside the wall and is no wider than STRIDE_WIDTH and no higher than
\* STRIDE_HEIGHT.  The fallback scan has no brick to supply that the search
\* does not reach: after the first round every unbuilt brick on course 0 or
\* supported lies inside the footprint of a grid origin.
C24_QueueWithinOneFootprint ==
    /\ wall.current_stride_bricks # <<>> =>
          \A box \in {BoundingBox(wall, wall.current_stride_bricks)} :
              /\ 0 <= box.left /\ box.right <= mm(WALL_WIDTH)
              /\ 0 <= box.bottom /\ box.top <= mm(WALL_HEIGHT)
              /\ box.right - box.left <= mm(STRIDE_WIDTH)
              /\ box.top - box.bottom <= mm(STRIDE_HEIGHT)
    /\ wall.placed_bricks > 0 =>
          \A b \in PlaceableBricks(wall) :
              \E origin \in GridOrigins :
                  brick_in_stride(wall, b[1], b[2], mm(origin[1]), mm(origin[2]))

\* a grid-search round has left a queue of several courses that takes more
\* than three quarters of the width of the footprint
C24_Witness ==
    /\ PlannedByRound(wall)
    /\ wall.current_stride_bricks # <<>>
    /\ \A box \in {BoundingBox(wall, wall.current_stride_bricks)} :
          /\ 4 * (box.right - box.left) > 3 * mm(STRIDE_WIDTH)
          /\ box.top - box.bottom > COURSE_HEIGHT_U

\* every brick above course 0 has a support ratio of at least 0.9 against the
\* whole course below
FullCourseSupport(w) ==
    \A b \in AllBricks(w) :
        b[1] > 0 => 10 * RestsOnWith(w, b[1], b[2], AllBricks(w))
                      >= 9 * PositionOf(w, b[1], b[2]).length

\* a place_all_bricks_in_stride of a run on an incomplete wall places a brick
RunStep ==
    (stride_run(wall) /\ ~is_complete(wall) /\ call'.op = "place_stride") =>
        wall'.ret /\ wall'.placed_bricks > wall.placed_bricks

\* C25: for every bond type, English Cross and wild included, every brick
\* above course 0 is supported once the course below it is built, the program
\* gets a fresh wall to run on, every place_stride of a run from the fresh
\* wall places a brick until the wall is complete, and no state has unbuilt
\* bricks of which none is placeable.
C25_RunsCompleteForEveryBond ==
    /\ [](/\ FullCourseSupport(wall)
          /\ partial # <<>> => FullCourseSupport(partial)
          /\ call.op = "reset_wall" => ~aborted /\ wall.bond_type = call.args[1]
          /\ has_unbuilt_bricks(wall) => PlaceableBricks(wall) # {}
          /\ stride_run(wall) /\ ~is_complete(wall) => wall.h_strides <= wall.placed_bricks)
    /\ [][RunStep]_vars

\* What holds: the bricks of all three grids are supported over a full course
\* below, and the runs on the walls the program does construct, the wild wall
\* included, place a brick with every call and reach the complete wall.
RunsCompleteAsBuilt ==
    /\ [](/\ FullCourseSupport(wall)
          /\ partial # <<>> => FullCourseSupport(partial)
          /\ has_unbuilt_bricks(wall) => PlaceableBricks(wall) # {}
          /\ stride_run(wall) /\ ~is_complete(wall) => wall.h_strides <= wall.placed_bricks)
    /\ [][RunStep]_vars

\* the run on the wild wall has completed it
WildRunCompleted ==
    /\ wall.bond_type = WILD_BOND
    /\ stride_run(wall)
    /\ call.op = "place_stride"
    /\ is_complete(wall)

\* the placeable set the search of a round chooses on wall w, as listed
ChosenSet(w) ==
    search_stride([w EXCEPT !.current_stride_bricks = <<>>]).current_stride_bricks

\* two lists hold the same bricks, each once
SameBricks(a, b) ==
    /\ Len(a) = Len(b)
    /\ Range(a) = Range(b)
    /\ Cardinality(Range(a)) = Len(a)

\* C26: the ordered queue holds exactly the bricks of the placeable set chosen
\* for the round, each once: the queue a round has left holds the bricks of
\* the set its search chose, and ordering the placeable set of a footprint
\* neither drops nor repeats a brick.
C26_OrderKeepsTheBricks ==
    /\ RoundDone(wall) => SameBricks(wall.current_stride_bricks, ChosenSet(wall))
    /\ \A origin \in FootprintOrigins :
          \A placeable \in {get_all_placeable_bricks_in_stride(wall, mm(origin[1]),
                                                               mm(origin[2]))} :
              SameBricks(optimize_brick_placement_order(
                             [wall EXCEPT !.current_stride_bricks = placeable])
                             .current_stride_bricks,
                         placeable)

\* a round has left a queue of three courses or more in another order than
\* the one the placeable set was listed in
C26_Witness ==
    /\ PlannedByRound(wall)
    /\ Cardinality({b[1] : b \in Range(wall.current_stride_bricks)}) >= 3
    /\ wall.current_stride_bricks # ChosenSet(wall)
    /\ SameBricks(wall.current_stride_bricks, ChosenSet(wall))

\* grid entries that differ at most by a built flag that went from 0 to 1
OnlyBuilt(before, after) ==
    /\ after[1] = before[1]
    /\ after[3] = before[3]
    /\ after[2] \in {0, 1}
    /\ before[2] = 1 => after[2] = 1

\* the bricks of grid after are those of grid before, built or newly built
SameBricksBuiltOn(before, after) ==
    /\ Len(after) = Len(before)
    /\ \A c \in DOMAIN before :
          /\ Len(after[c]) = Len(before[c])
          /\ \A p \in DOMAIN before[c] : OnlyBuilt(before[c][p], after[c][p])

\* C27: no operation on a wall changes the length or the orientation of a
\* brick, the number of bricks of a course, total_bricks or the cached brick
\* positions; a built flag changes only from unbuilt to built.  So the wall
\* of every state has the bricks and the positions of the wall as constructed.
C27_OperationsOnlyBuild ==
    /\ [][call'.op \in {"place_brick", "place_one", "place_stride", "frame_end"} =>
            /\ SameBricksBuiltOn(wall.grid, wall'.grid)
            /\ wall'.total_bricks = wall.total_bricks
            /\ wall'.brick_positions = wall.brick_positions]_vars
    /\ [](/\ SameBricksBuiltOn(constructed(wall.bond_type).grid, wall.grid)
          /\ wall.total_bricks = constructed(wall.bond_type).total_bricks
          /\ wall.brick_positions = constructed(wall.bond_type).brick_positions)

\* place_all_bricks_in_stride has built headers and stretchers of a wild
\* wall, and bricks of both orientations are left unbuilt
C27_Witness ==
    /\ call.op = "place_stride"
    /\ wall.bond_type = WILD_BOND
    /\ wall.ret
    /\ \A orientation \in {"header", "stretcher"} :
          \A built \in {0, 1} :
              \E b \in AllBricks(wall) :
                  /\ wall.grid[b[1] + 1][b[2] + 1][2] = built
                  /\ wall.grid[b[1] + 1][b[2] + 1][3] = orientation

\* The state of the interior loop of _initialize_wild_bond_course before it
\* lays brick i (1-based) of the finished row: x_pos as the loop counts it
\* from starting_offset, the length of interior_plan and the two counters.
LoopState(row, course, i) ==
    LET first == IF course % 4 = 0 THEN 1 ELSE 2
        run(orientation) ==
            Cardinality({n \in 1..(i - first) :
                            \A k \in (i - n)..(i - 1) : row[k][3] = orientation})
    IN  [x_pos |-> (course % 4) * quarter_brick
                     + SumOver(first..(i - 1), LAMBDA k : row[k][1] + mm(HEAD_JOINT)),
         interior_plan |-> SubSeq(row, first, i - 1),
         consecutive_headers |-> run("header"),
         consecutive_stretchers |-> run("stretcher")]

\* place_header as lines 125-139 leave it, before the test of the head joints
Candidate(st, course) ==
    IF st.consecutive_headers >= 3 THEN FALSE
    ELSE IF st.consecutive_stretchers >= 5 THEN TRUE
    ELSE IF Len(st.interior_plan) = 0 THEN course % 3 = 1
    ELSE \/ (st.x_pos + mm(course)) % mm(7) = 0
         \/ (st.x_pos + mm(course)) % mm(11) = 0

\* the head joints of a finished row: the ends of its bricks but the last,
\* of every orientation or of the headers alone
HeadJoints(row, orientations) ==
    {SumOver(1..k, LAMBDA n : row[n][1]) + (k - 1) * mm(HEAD_JOINT) :
        k \in {n \in 1..(Len(row) - 1) : row[n][3] \in orientations}}

\* the interior bricks of course (0-based) of grid whose candidate ends
\* within a quarter brick of one of the head joints of the course below
NearJoint(grid, course, orientations) ==
    {i \in (IF course % 4 = 0 THEN 1 ELSE 2)..(Len(grid[course + 1]) - 1) :
        \A st \in {LoopState(grid[course + 1], course, i)} :
            \E joint \in HeadJoints(grid[course], orientations) :
                Abs(st.x_pos + (IF Candidate(st, course) THEN mm(FULL_BRICK_WIDTH)
                                                          ELSE mm(FULL_BRICK_LENGTH))
                    - joint) < quarter_brick}

\* brick i of the course has the orientation the candidate did not have
Flipped(grid, course, i) ==
    (grid[course + 1][i][3] = "header")
        = ~Candidate(LoopState(grid[course + 1], course, i), course)

\* C28: in every course above 0 of the wild wall, an interior brick whose
\* candidate would end within a quarter brick of a head joint of the course
\* below is laid with the other orientation.
C28_CandidateNearJointIsFlipped ==
    wall.bond_type = WILD_BOND =>
        \A course \in 1..(NUM_COURSES - 1) :
            \A i \in NearJoint(wall.grid, course, {"header", "stretcher"}) :
                Flipped(wall.grid, course, i)

\* What holds: a candidate that neither a counter nor the start of the course
\* has decided is laid with the other orientation exactly when it would end
\* within a quarter brick of the end of a header of the course below.
WildJointRuleAsBuilt ==
    wall.bond_type = WILD_BOND =>
        \A course \in 1..(NUM_COURSES - 1) :
            \A i \in (IF course % 4 = 0 THEN 1 ELSE 2)..(Len(wall.grid[course + 1]) - 1) :
                \A st \in {LoopState(wall.grid[course + 1], course, i)} :
                    IF \/ st.consecutive_headers >= 3
                       \/ st.consecutive_stretchers >= 5
                       \/ Len(st.interior_plan) = 0
                    THEN ~Flipped(wall.grid, course, i)
                    ELSE Flipped(wall.grid, course, i)
                           <=> i \in NearJoint(wall.grid, course, {"header"})

\* C29: when _identify_falling_teeth_patterns is called for a course of the
\* wild wall and the courses below it (the 5 most recent at most) hold brick
\* ends aligned from course to course through k of them, up to the course
\* directly below, the patterns returned hold a chain of at least k ends with
\* the topmost of these ends in it; so an alignment through 5 courses is
\* returned as a chain of length 5 or more.
C29_TeethChainsAreReported ==
    (call.op = "reset_wall" /\ wall.bond_type = WILD_BOND) =>
        \A course \in 2..(NUM_COURSES - 1) :
            \A patterns \in {identify_falling_teeth_patterns(course, wall.grid)} :
                \A k \in 2..Min(TeethLength, course) :
                    \A q \in 0..(CourseLen(wall, course - 1) - 1) :
                        ChainBelow(wall, course - 1, EndOf(wall, course - 1, q), k - 1) =>
                            \E n \in DOMAIN patterns :
                                /\ Len(patterns[n]) >= k
                                /\ \E m \in DOMAIN patterns[n] :
                                      /\ patterns[n][m].course = course - 1
                                      /\ patterns[n][m].index = q

\* What holds: every pattern returned has two ends, one of a course and one
\* of the course above it, so that no pattern reaches the length of 5 that
\* the rejection rule asks for.
TeethPatternsAsBuilt ==
    (call.op = "reset_wall" /\ wall.bond_type = WILD_BOND) =>
        \A course \in 0..(NUM_COURSES - 1) :
            \A patterns \in {identify_falling_teeth_patterns(course, wall.grid)} :
                /\ course >= 5 => patterns # <<>>
                /\ \A n \in DOMAIN patterns :
                      /\ Len(patterns[n]) = 2
                      /\ patterns[n][2].course = patterns[n][1].course + 1
                      /\ Aligned(patterns[n][1].x, patterns[n][2].x)
                      /\ ~wild_would_extend(patterns[n][2].x, patterns)

\* the lengths of the bricks of a grid
BrickLengths(grid) == UNION {{grid[c][p][1] : p \in DOMAIN grid[c]} : c \in DOMAIN grid}

\* C30: every brick of every course of the grids of the three bond types has
\* a length above 0 and of FULL_BRICK_LENGTH at most, the closing brick of a
\* wild course included.
C30_BrickLengthsWithinFullBrick ==
    /\ \A length \in BrickLengths(wall.grid) :
          0 < length /\ length <= mm(FULL_BRICK_LENGTH)
    /\ partial # <<>> =>
          \A length \in BrickLengths(partial.grid) :
              0 < length /\ length <= mm(FULL_BRICK_LENGTH)

\* What holds: the bricks of the stretcher and English Cross grids are
\* between 37.5 mm and FULL_BRICK_LENGTH long; in the wild grid only the
\* closing brick of a course is longer, at most a full brick and a quarter.
BrickLengthsAsBuilt ==
    /\ wall.bond_type = STRETCHER_BOND =>
          BrickLengths(wall.grid) = {mm(HALF_BRICK_LENGTH), mm(FULL_BRICK_LENGTH)}
    /\ partial # <<>> =>
          \A length \in BrickLengths(partial.grid) :
              (3 * mm(FULL_BRICK_WIDTH)) \div 8 <= length /\ length <= mm(FULL_BRICK_LENGTH)
    /\ wall.bond_type = WILD_BOND =>
          \A c \in DOMAIN wall.grid :
              \A p \in DOMAIN wall.grid[c] :
                  /\ 0 < wall.grid[c][p][1]
                  /\ p < Len(wall.grid[c]) => wall.grid[c][p][1] <= mm(FULL_BRICK_LENGTH)
                  /\ wall.grid[c][p][1] <= mm(FULL_BRICK_LENGTH) + quarter_brick
    /\ wall.bond_type = WILD_BOND =>
          \E c \in DOMAIN wall.grid :
              wall.grid[c][Len(wall.grid[c])][1] = mm(FULL_BRICK_LENGTH) + quarter_brick
====
